---- MODULE Spec2Model ----
(***************************************************************************)
(* AutoNinja orchestration core.                                           *)
(*                                                                         *)
(* Spec models one execution of one of the pipeline entry points:          *)
(*   entry = "agentcore"    supervisor_agent.invoke with its retrying      *)
(*                          invoke_collaborator                            *)
(*   entry = "lambda"       handler.lambda_handler / handle_orchestrate    *)
(*                          with invoke_agent_lambda                       *)
(*   entry = "collaborator" one collaborator stage function of             *)
(*                          collaborators/*.py (analyze, design, generate, *)
(*                          validate)                                      *)
(* SpecThrottle models concurrent executions of                            *)
(* agentcore_rate_limiter.apply_rate_limiting on one shared lease store    *)
(* with a discrete clock.                                                  *)
(* SpecRerun adds a second call of an orchestrator for the same request.   *)
(* SpecExtract and SpecJobName apply the response extraction and the job   *)
(* name generation to bounded sets of inputs.                              *)
(* SpecOrchestration models the custom-orchestration Lambda of one warm    *)
(* container with its in-memory rate-limit table.                          *)
(* SpecRateLimiter models one rate_limiter.RateLimiter and its caller.     *)
(* SpecInvokeCollaborator models one invoke_collaborator call made with    *)
(* any max_retries argument.                                               *)
(* SpecGate runs the two orchestrators against a quality validator whose   *)
(* is_valid need not be a boolean.                                         *)
(* SpecJobIds generates the job ids of two requests.                       *)
(***************************************************************************)
EXTENDS Integers, Sequences, FiniteSets, TLC

VARIABLES
    entry,      \* which entry point this execution runs
    env,        \* the execution's environment: payload, MOCK_MODE, configuration
    pc,         \* control position of the execution
    step,       \* index of the current stage / call in the entry point's sequence
    attempt,    \* invoke_collaborator: loop variable `attempt` (0-based)
    planned,    \* number of consecutive failing attempts the collaborator answers the current call with
    lastError,  \* invoke_collaborator: the error of the latest failed attempt
    waits,      \* invoke_collaborator: backoff sleeps taken during the current call
    stageLog,   \* invoker entries (invoke_collaborator / invoke_agent_lambda) in order
    apiCalls,   \* collaborator API calls actually sent, in order
    inflight,   \* collaborator API calls sent and not yet answered
    parts,      \* handle_orchestrate: the per-call results gathered so far
    results,    \* the `results` dictionary: key -> stage output
    status,     \* terminal state of the run
    final,      \* the value handed back to the caller
    table,      \* DynamoDB inference records: agent_name -> status
    hist,       \* history of the run: what was received and raised
    now,        \* SpecThrottle: wall clock, in seconds
    lim,        \* SpecThrottle: per caller, the locals of apply_rate_limiting
    lease       \* SpecThrottle: the lastInvocation records of the shared store

vars == <<entry, env, pc, step, attempt, planned, lastError, waits, stageLog,
          apiCalls, inflight, parts, results, status, final, table, hist,
          now, lim, lease>>

pipeVars == <<entry, env, pc, step, attempt, planned, lastError, waits, stageLog,
              apiCalls, inflight, parts, results, status, final, table, hist>>

throttleVars == <<now, lim, lease>>

----------------------------------------------------------------------------
(* Bounds *)

\* largest number of consecutive failing attempts answered to one invoke_collaborator call
MaxConsecFail == 4

\* how many agent Lambda answers of one run may be other than the action's result
MaxOddResponses == 1

\* number of concurrent executions calling apply_rate_limiting
NumCallers == 2

\* apply_rate_limiting calls made by each execution, one after the other
MaxCallsPerCaller == 2

\* largest number of apply_rate_limiting calls made in all
MaxCalls == 3

\* seconds of wall-clock time observed
Horizon == 4

\* largest number of times the orchestrator is called again for one request
MaxReruns == 1

\* number of agent:session keys served by one container
NumKeys == 3

\* events handled by one container
MaxEvents == 5

\* largest number of tools the model asks for in one answer
MaxToolCalls == 2

\* the table size above which apply_rate_limiting cleans up (100 in line 271)
\* and the number of entries a clean-up deletes (50 in line 273), scaled down
TABLE_LIMIT == 2

CLEANUP_COUNT == 1

(* Program constants *)

\* invoke_collaborator(..., max_retries: int = 3)
max_retries == 3

\* AGENT_INVOKE_DELAY = 10.0
AGENT_INVOKE_DELAY == 10

\* MIN_INTERVAL_SECONDS = int(os.environ.get('MIN_INTERVAL_SECONDS', '60')), with
\* the environment variable set to 2
MIN_INTERVAL_SECONDS == 2

----------------------------------------------------------------------------
(* Values *)

EmptyMap == [k \in {} |-> 0]

NoError == [type |-> "none", cause |-> "none", attempt |-> 0]

Err(t, c, a) == [type |-> t, cause |-> c, attempt |-> a]

\* a stage output: kind says what json parsing made of the response text,
\* is_valid is the value under the key 'is_valid' ("absent": no such key)
Out(k, iv) == [kind |-> k, is_valid |-> iv]

\* what the caller gets back: the status, the stage outputs it carries (if it
\* carries any), the error, and for lambda_handler the httpStatusCode
Final(st, has, res, e, code) ==
    [status |-> st, hasResults |-> has, results |-> res, error |-> e, http |-> code]

NoFinal == Final("none", FALSE, EmptyMap, NoError, 0)

Put(m, k, v) == (k :> v) @@ m

\* a field of a stage input holding `json.dumps(x) if isinstance(x, dict) else
\* str(x)` of the output x: the whole of the output of `origin`
Ref(origin, value) == [origin |-> origin, value |-> value]

\* the input handed to an invoker entry: the fields that hold stage outputs
\* and the value of 'validation_status' ("none": no such key)
Input(to, fields, marker) == [to |-> to, fields |-> fields, validation_status |-> marker]

\* a fixed delay in place of `2 ** attempt`
Pow2_Constant(n) == 1

\* 2 ** attempt, supervisor_agent.py line 392
Pow2(n) == IF n = 0 THEN 1 ELSE IF n = 1 THEN 2 ELSE IF n = 2 THEN 4 ELSE IF n = 3 THEN 8 ELSE 16

----------------------------------------------------------------------------
(* supervisor_agent.py *)

\* the collaborators called in the order REQUIREMENTS, ARCHITECTURE, CODE
AGENT_SEQUENCE_ArchitectFirst ==
    << "requirements_analyst", "solution_architect", "code_generator",
       "quality_validator", "deployment_manager" >>

\* the order in which invoke calls invoke_collaborator
AGENT_SEQUENCE ==
    << "requirements_analyst", "code_generator", "solution_architect",
       "quality_validator", "deployment_manager" >>

COLLABORATORS == { AGENT_SEQUENCE[i] : i \in 1..Len(AGENT_SEQUENCE) }

\* variant: the text is wrapped as {"result": text} even when it is JSON
parse_streaming_response_NeverDecodes(text) ==
    Out("placeholder", "absent")

\* parse_streaming_response: json.loads of the accumulated text, or the text
\* wrapped as {"result": text}
parse_streaming_response(text) ==
    IF text.json THEN Out("dict", text.is_valid) ELSE Out("placeholder", "absent")

\* the is_valid values of an answer that does not keep to the ValidationResult
\* schema (is_valid: boolean): JSON null and the JSON string "false"; none
\* when the environment's validator keeps to the schema
UntypedIsValid ==
    IF env.answers = "any_json" THEN {"null", "'false'"} ELSE {}

\* the texts a collaborator can answer with
ResponseTexts(collaborator) ==
    { [json |-> FALSE, is_valid |-> "absent"] } \cup
    { [json |-> TRUE, is_valid |-> iv] :
        iv \in IF collaborator = "quality_validator"
               THEN {"true", "false", "absent"} \cup UntypedIsValid ELSE {"absent"} }

\* get_mock_response
get_mock_response(collaborator) ==
    IF collaborator = "quality_validator" THEN Out("dict", "true") ELSE Out("dict", "absent")

\* validation.get('is_valid', True): a missing flag counts as passed
GetIsValid_DefaultTrue(validation) ==
    IF validation.is_valid = "absent" THEN "true" ELSE validation.is_valid

\* validation.get('is_valid', False)
GetIsValid(validation) ==
    IF validation.is_valid = "absent" THEN "false" ELSE validation.is_valid

\* `if not is_valid`: the truth value Python gives the value; True and a
\* non-empty string are true, False and None are not
Truthy(v) == v \in {"true", "'false'"}

\* an except clause that swallows the error and reports the job as deployed
SupError_Swallow(e) ==
    /\ status' = "deployed"
    /\ final' = Final("deployed", TRUE, results, NoError, 0)
    /\ pc' = "done"

\* the except clause of invoke, lines 262-274
SupError(e) ==
    /\ status' = "error"
    /\ final' = Final("error", FALSE, EmptyMap, e, 0)
    /\ pc' = "done"

\* variant: the validator's input carries "validation_status": "passed" too
input_data_MarkerAlways(c, res) ==
    LET requirements == Ref("requirements_analyst", res["requirements_analyst"]) IN
    IF c = "requirements_analyst" THEN Input(c, EmptyMap, "none")
    ELSE IF c \in {"code_generator", "solution_architect"}
    THEN Input(c, ("requirements" :> requirements), "none")
    ELSE Input(c, ("requirements" :> requirements)
                   @@ ("code" :> Ref("code_generator", res["code_generator"]))
                   @@ ("architecture" :> Ref("solution_architect", res["solution_architect"])),
               "passed")

\* the input_data invoke builds for a collaborator from the outputs it has,
\* lines 115-119, 130-134, 147-156, 167-173 and 216-223 (job_name, action and
\* the fixed code_file_references are not stage outputs)
input_data(c, res) ==
    LET requirements == Ref("requirements_analyst", res["requirements_analyst"]) IN
    IF c = "requirements_analyst" THEN Input(c, EmptyMap, "none")
    ELSE IF c \in {"code_generator", "solution_architect"}
    THEN Input(c, ("requirements" :> requirements), "none")
    ELSE Input(c, ("requirements" :> requirements)
                   @@ ("code" :> Ref("code_generator", res["code_generator"]))
                   @@ ("architecture" :> Ref("solution_architect", res["solution_architect"])),
               IF c = "deployment_manager" THEN "passed" ELSE "none")

\* variant: invoke without the check of the prompt, lines 89-94
SupStart_NoPromptCheck ==
    /\ entry = "agentcore"
    /\ pc = "start"
    /\ pc' = "stage"
    /\ step' = 1
    /\ hist' = [hist EXCEPT !.job_name = "generated"]
    /\ UNCHANGED <<status, final>>
    /\ UNCHANGED <<entry, env, attempt, planned, lastError, waits, stageLog, apiCalls,
                   inflight, parts, results, table>>
    /\ UNCHANGED throttleVars

\* invoke up to the first collaborator, lines 84-107: an empty or missing
\* prompt is answered with the error result, otherwise generate_job_name runs
SupStart ==
    /\ entry = "agentcore"
    /\ pc = "start"
    /\ IF env.prompt = ""
       THEN /\ status' = "error"
            /\ final' = Final("error", FALSE, EmptyMap, Err("no_prompt", "none", 0), 0)
            /\ pc' = "done"
            /\ UNCHANGED <<step, hist>>
       ELSE /\ pc' = "stage"
            /\ step' = 1
            /\ hist' = [hist EXCEPT !.job_name = "generated"]
            /\ UNCHANGED <<status, final>>
    /\ UNCHANGED <<entry, env, attempt, planned, lastError, waits, stageLog, apiCalls,
                   inflight, parts, results, table>>
    /\ UNCHANGED throttleVars

\* invoke without line 181: the validator's output is not kept in `results`
SupAdvance_DropValidation(result) ==
    LET c == AGENT_SEQUENCE[step] IN
    /\ results' = IF c = "quality_validator" THEN results ELSE Put(results, c, result)
    /\ IF c = "quality_validator"
       THEN IF ~Truthy(GetIsValid(result))
            THEN /\ status' = "validation_failed"
                 /\ final' = Final("validation_failed", TRUE, results', NoError, 0)
                 /\ pc' = "done"
                 /\ UNCHANGED step
            ELSE /\ pc' = "stage"
                 /\ step' = step + 1
                 /\ UNCHANGED <<status, final>>
       ELSE IF c = "deployment_manager"
       THEN /\ status' = "deployed"
            /\ final' = Final("deployed", TRUE, results', NoError, 0)
            /\ pc' = "done"
            /\ UNCHANGED step
       ELSE /\ pc' = "stage"
            /\ step' = step + 1
            /\ UNCHANGED <<status, final>>

\* what invoke does with the value invoke_collaborator returned for stage `step`
SupAdvance(result) ==
    LET c == AGENT_SEQUENCE[step] IN
    /\ results' = Put(results, c, result)
    /\ IF c = "quality_validator"
       THEN \* validation gate, lines 184-210
            IF ~Truthy(GetIsValid(result))
            THEN /\ status' = "validation_failed"
                 /\ final' = Final("validation_failed", TRUE, results', NoError, 0)
                 /\ pc' = "done"
                 /\ UNCHANGED step
            ELSE /\ pc' = "stage"
                 /\ step' = step + 1
                 /\ UNCHANGED <<status, final>>
       ELSE IF c = "deployment_manager"
       THEN \* lines 231-260
            /\ status' = "deployed"
            /\ final' = Final("deployed", TRUE, results', NoError, 0)
            /\ pc' = "done"
            /\ UNCHANGED step
       ELSE /\ pc' = "stage"
            /\ step' = step + 1
            /\ UNCHANGED <<status, final>>

\* the except clause with `attempt < max_retries`: one attempt too many
RetryDecision_OffByOne(kind) ==
    IF attempt < max_retries
    THEN /\ waits' = Append(waits, Pow2(attempt))
         /\ pc' = "backoff"
         /\ UNCHANGED <<step, results, status, final>>
    ELSE /\ SupError(Err("retries_exhausted", kind, attempt))
         /\ UNCHANGED <<waits, step, results>>

\* the except clause of the retry loop, lines 386-397, for a failure of `kind`
RetryDecision(kind) ==
    IF attempt < max_retries - 1
    THEN /\ waits' = Append(waits, Pow2(attempt))
         /\ pc' = "backoff"
         /\ UNCHANGED <<step, results, status, final>>
    ELSE /\ SupError(Err("retries_exhausted", kind, attempt))
         /\ UNCHANGED <<waits, step, results>>

\* one finished invoke_collaborator call, as observed: the number n of
\* consecutive failures the collaborator had in store, the failures received,
\* the API calls sent, and how the call ended
Ended(c, n, f, s, o) == [collaborator |-> c, n |-> n, fails |-> f, sent |-> s, outcome |-> o]

\* invoke_collaborator up to the retry loop, lines 344-363
BeginCollaborator ==
    /\ entry = "agentcore"
    /\ pc = "stage"
    /\ LET c == AGENT_SEQUENCE[step] IN
       /\ stageLog' = Append(stageLog, c)
       /\ attempt' = 0
       /\ lastError' = NoError
       /\ IF env.MOCK_MODE
          THEN /\ SupAdvance(get_mock_response(c))
               /\ hist' = [hist EXCEPT !.sent = 0, !.fails = 0, !.produced = @ \cup {c},
                                        !.inputs = Append(@, input_data(c, results))]
               /\ UNCHANGED <<planned, waits>>
          ELSE IF c = env.unconfigured
          THEN /\ SupError(Err("missing_configuration", "none", 0))
               /\ hist' = [hist EXCEPT !.sent = 0, !.fails = 0, !.raised = Append(@, c),
                                        !.inputs = Append(@, input_data(c, results))]
               /\ UNCHANGED <<planned, waits, step, results>>
          ELSE /\ \E n \in 0..MaxConsecFail : planned' = n
               /\ waits' = <<>>
               /\ pc' = "attempt"
               /\ hist' = [hist EXCEPT !.sent = 0, !.fails = 0,
                                        !.inputs = Append(@, input_data(c, results))]
               /\ UNCHANGED <<step, results, status, final>>
    /\ UNCHANGED <<entry, env, apiCalls, inflight, parts, table>>
    /\ UNCHANGED throttleVars

\* bedrock_agent_runtime.invoke_agent is sent, line 372
SendInvokeAgent ==
    /\ entry = "agentcore"
    /\ pc = "attempt"
    /\ apiCalls' = Append(apiCalls, AGENT_SEQUENCE[step])
    /\ inflight' = inflight \cup {AGENT_SEQUENCE[step]}
    /\ hist' = [hist EXCEPT !.sent = @ + 1]
    /\ pc' = "await"
    /\ UNCHANGED <<entry, env, step, attempt, planned, lastError, waits, stageLog,
                   parts, results, status, final, table>>
    /\ UNCHANGED throttleVars

\* the call answers with a response: lines 380-384
ReceiveResponse ==
    /\ entry = "agentcore"
    /\ pc = "await"
    /\ attempt >= planned
    /\ inflight' = inflight \ {AGENT_SEQUENCE[step]}
    /\ \E text \in ResponseTexts(AGENT_SEQUENCE[step]) :
          /\ SupAdvance(parse_streaming_response(text))
          /\ hist' = [hist EXCEPT
                 !.unparsed = IF text.json THEN @ ELSE @ \cup {AGENT_SEQUENCE[step]},
                 !.produced = @ \cup {AGENT_SEQUENCE[step]},
                 !.ended = Append(@, Ended(AGENT_SEQUENCE[step], planned, hist.fails,
                                           hist.sent, "returned"))]
    /\ UNCHANGED <<entry, env, attempt, planned, lastError, waits, stageLog, apiCalls,
                   parts, table>>
    /\ UNCHANGED throttleVars

\* the call raises: lines 386-397
ReceiveFailure ==
    /\ entry = "agentcore"
    /\ pc = "await"
    /\ attempt < planned
    /\ inflight' = inflight \ {AGENT_SEQUENCE[step]}
    /\ \E kind \in {"throttling", "other"} :
          /\ lastError' = Err("invoke_failed", kind, attempt)
          /\ RetryDecision(kind)
    /\ hist' = [hist EXCEPT
           !.fails = @ + 1,
           !.raised = IF status' = "error" THEN Append(@, AGENT_SEQUENCE[step]) ELSE @,
           !.ended = IF status' = "error"
                     THEN Append(@, Ended(AGENT_SEQUENCE[step], planned, hist.fails + 1,
                                          hist.sent, "raised"))
                     ELSE @]
    /\ UNCHANGED <<entry, env, attempt, planned, stageLog, apiCalls, parts, table>>
    /\ UNCHANGED throttleVars

\* time.sleep(wait_time) ends and the loop takes its next iteration, lines 394, 366
Backoff ==
    /\ entry = "agentcore"
    /\ pc = "backoff"
    /\ attempt' = attempt + 1
    /\ pc' = "attempt"
    /\ UNCHANGED <<entry, env, step, planned, lastError, waits, stageLog, apiCalls,
                   inflight, parts, results, status, final, table, hist>>
    /\ UNCHANGED throttleVars

----------------------------------------------------------------------------
(* handler.py: lambda_handler, handle_orchestrate, invoke_agent_lambda *)

Call(a, p, st) == [agent |-> a, path |-> p, stage |-> st]

\* the calls of handle_orchestrate in program order, lines 198-484
ORCHESTRATION ==
    << Call("requirements-analyst", "/extract-requirements", "requirements"),
       Call("requirements-analyst", "/analyze-complexity", "requirements"),
       Call("requirements-analyst", "/validate-requirements", "requirements"),
       Call("solution-architect", "/design-architecture", "architecture"),
       Call("solution-architect", "/select-services", "architecture"),
       Call("solution-architect", "/generate-iac", "architecture"),
       Call("code-generator", "/generate-lambda-code", "code"),
       Call("code-generator", "/generate-agent-config", "code"),
       Call("code-generator", "/generate-openapi-schema", "code"),
       Call("quality-validator", "/validate-code", "validation"),
       Call("quality-validator", "/security-scan", "validation"),
       Call("quality-validator", "/compliance-check", "validation"),
       Call("deployment-manager", "/generate-cloudformation", "deployment"),
       Call("deployment-manager", "/deploy-stack", "deployment"),
       Call("deployment-manager", "/configure-agent", "deployment"),
       Call("deployment-manager", "/test-deployment", "deployment") >>

\* is call i the last call of its stage
LastOfStage(i) ==
    \/ i = Len(ORCHESTRATION)
    \/ ORCHESTRATION[i + 1].stage # ORCHESTRATION[i].stage

\* the bodies an agent Lambda can answer with (invoke_agent_lambda, lines 623-633):
\* the action's result, the agent's own {error, status: error} body, or a
\* payload without response/responseBody
LambdaBodies(path) ==
    { [shape |-> "result", is_valid |-> iv] :
        iv \in IF path = "/validate-code"
               THEN {"true", "false"} \cup UntypedIsValid ELSE {"absent"} }
    \cup { [shape |-> "error_body", is_valid |-> "absent"],
           [shape |-> "unexpected", is_valid |-> "absent"] }

\* invoke_agent_lambda, lines 623-633: what it returns for a body
invoke_agent_lambda_result(body) ==
    IF body.shape = "result" THEN Out("dict", body.is_valid)
    ELSE IF body.shape = "error_body" THEN Out("error_body", "absent")
    ELSE Out("placeholder", "absent")

\* variant: /generate-lambda-code is not given the architecture design
parameters_NoFunctionSpec(path, ps) ==
    LET extract == Ref("/extract-requirements", ps["/extract-requirements"])
        design == Ref("/design-architecture", ps["/design-architecture"])
        lambda_code == Ref("/generate-lambda-code", ps["/generate-lambda-code"])
    IN
    IF path = "/extract-requirements" THEN Input(path, EmptyMap, "none")
    ELSE IF path \in {"/analyze-complexity", "/validate-requirements", "/design-architecture",
                      "/select-services", "/generate-agent-config"}
    THEN Input(path, ("requirements" :> extract), "none")
    ELSE IF path = "/generate-iac" THEN Input(path, ("architecture" :> design), "none")
    ELSE IF path = "/generate-lambda-code"
    THEN Input(path, ("requirements" :> extract), "none")
    ELSE IF path = "/generate-openapi-schema"
    THEN Input(path, ("action_group_spec" :> Ref("/generate-agent-config",
                                                  ps["/generate-agent-config"])), "none")
    ELSE IF path = "/validate-code" THEN Input(path, ("code" :> lambda_code), "none")
    ELSE IF path = "/security-scan"
    THEN Input(path, ("code" :> lambda_code) @@ ("architecture" :> design), "none")
    ELSE IF path = "/compliance-check"
    THEN Input(path, ("code" :> lambda_code) @@ ("requirements" :> extract), "none")
    ELSE IF path = "/generate-cloudformation"
    THEN Input(path, ("requirements" :> extract) @@ ("code" :> lambda_code)
                      @@ ("architecture" :> design), "passed")
    ELSE IF path = "/deploy-stack"
    THEN Input(path, ("cloudformation_template" :> Ref("/generate-cloudformation",
                                                        ps["/generate-cloudformation"])), "none")
    ELSE IF path = "/configure-agent"
    THEN Input(path, ("agent_config" :> Ref("/generate-agent-config",
                                             ps["/generate-agent-config"]))
                      @@ ("lambda_arns" :> Ref("/deploy-stack", ps["/deploy-stack"])), "none")
    ELSE Input(path, ("agent_id" :> Ref("/configure-agent", ps["/configure-agent"]))
                      @@ ("test_inputs" :> extract), "none")

\* the parameters handle_orchestrate passes to invoke_agent_lambda for a call,
\* built from the results of the earlier calls: lines 209, 221-223, 235-237,
\* 261-264, 276-278, 290-293, 317-320, 332-334, 346-348, 372-375, 387-390,
\* 402-405, 431-436, 448-451, 463-466 and 478-482
parameters(path, ps) ==
    LET extract == Ref("/extract-requirements", ps["/extract-requirements"])
        design == Ref("/design-architecture", ps["/design-architecture"])
        lambda_code == Ref("/generate-lambda-code", ps["/generate-lambda-code"])
    IN
    IF path = "/extract-requirements" THEN Input(path, EmptyMap, "none")
    ELSE IF path \in {"/analyze-complexity", "/validate-requirements", "/design-architecture",
                      "/select-services", "/generate-agent-config"}
    THEN Input(path, ("requirements" :> extract), "none")
    ELSE IF path = "/generate-iac" THEN Input(path, ("architecture" :> design), "none")
    ELSE IF path = "/generate-lambda-code"
    THEN Input(path, ("requirements" :> extract) @@ ("function_spec" :> design), "none")
    ELSE IF path = "/generate-openapi-schema"
    THEN Input(path, ("action_group_spec" :> Ref("/generate-agent-config",
                                                  ps["/generate-agent-config"])), "none")
    ELSE IF path = "/validate-code" THEN Input(path, ("code" :> lambda_code), "none")
    ELSE IF path = "/security-scan"
    THEN Input(path, ("code" :> lambda_code) @@ ("architecture" :> design), "none")
    ELSE IF path = "/compliance-check"
    THEN Input(path, ("code" :> lambda_code) @@ ("requirements" :> extract), "none")
    ELSE IF path = "/generate-cloudformation"
    THEN Input(path, ("requirements" :> extract) @@ ("code" :> lambda_code)
                      @@ ("architecture" :> design), "passed")
    ELSE IF path = "/deploy-stack"
    THEN Input(path, ("cloudformation_template" :> Ref("/generate-cloudformation",
                                                        ps["/generate-cloudformation"])), "none")
    ELSE IF path = "/configure-agent"
    THEN Input(path, ("agent_config" :> Ref("/generate-agent-config",
                                             ps["/generate-agent-config"]))
                      @@ ("lambda_arns" :> Ref("/deploy-stack", ps["/deploy-stack"])), "none")
    ELSE Input(path, ("agent_id" :> Ref("/configure-agent", ps["/configure-agent"]))
                      @@ ("test_inputs" :> extract), "none")

\* lambda_handler's except clause, lines 120-152
Http500(e) ==
    /\ status' = "error"
    /\ final' = Final("error", FALSE, EmptyMap, e, 500)
    /\ pc' = "done"

\* lambda_handler lines 53-95 and handle_orchestrate lines 174-190
LambdaStart ==
    /\ entry = "lambda"
    /\ pc = "start"
    /\ IF env.apiPath # "/orchestrate"
       THEN /\ Http500(Err("unknown_api_path", "none", 0))
            /\ UNCHANGED <<step, table>>
       ELSE IF env.prompt = ""
       THEN /\ Http500(Err("missing_user_request", "none", 0))
            /\ UNCHANGED <<step, table>>
       ELSE \/ \* log_inference_input stores the record
               /\ table' = Put(table, "supervisor", "in_progress")
               /\ pc' = "h_limit"
               /\ step' = 1
               /\ UNCHANGED <<status, final>>
            \/ \* log_inference_input raises
               /\ Http500(Err("log_input_failed", "none", 0))
               /\ UNCHANGED <<step, table>>
    /\ hist' = [hist EXCEPT !.limited = @ + 1,
                            !.job_name = IF env.apiPath = "/orchestrate" /\ env.prompt # ""
                                         THEN "generated" ELSE @,
                            !.record = IF pc' = "h_limit" THEN Append(@, "in_progress")
                                       ELSE IF final'.error.type = "log_input_failed"
                                       THEN Append(@, "unreachable") ELSE @]
    /\ UNCHANGED <<entry, env, attempt, planned, lastError, waits, stageLog, apiCalls,
                   inflight, parts, results>>
    /\ UNCHANGED throttleVars

\* apply_rate_limiting(...) before each call
HRateLimit ==
    /\ entry = "lambda"
    /\ pc = "h_limit"
    /\ hist' = [hist EXCEPT !.limited = @ + 1]
    /\ pc' = "h_invoke"
    /\ UNCHANGED <<entry, env, step, attempt, planned, lastError, waits, stageLog,
                   apiCalls, inflight, parts, results, status, final, table>>
    /\ UNCHANGED throttleVars

\* invoke_agent_lambda up to lambda_client.invoke, lines 597-614
HInvoke ==
    /\ entry = "lambda"
    /\ pc = "h_invoke"
    /\ stageLog' = Append(stageLog, ORCHESTRATION[step].path)
    /\ apiCalls' = Append(apiCalls, ORCHESTRATION[step].agent)
    /\ inflight' = inflight \cup {ORCHESTRATION[step].path}
    /\ pc' = "h_await"
    /\ hist' = [hist EXCEPT !.inputs = Append(@, parameters(ORCHESTRATION[step].path, parts))]
    /\ UNCHANGED <<entry, env, step, attempt, planned, lastError, waits, parts, results,
                   status, final, table>>
    /\ UNCHANGED throttleVars

\* what log_error_to_dynamodb did in the step being taken
ErrorWrite == IF table' = table THEN "unreachable" ELSE "error"

\* handle_orchestrate's except clause, lines 547-555, then lambda_handler's
HRaise(e) ==
    /\ \/ table' = Put(table, "supervisor", "error")   \* log_error_to_dynamodb stores
       \/ table' = table                               \* log_error_to_dynamodb raises
    /\ Http500(e)

\* variant: a security scan that did not answer with its result fails the validation
OverallIsValid_WithSecurityScan(code_validation) ==
    IF "/security-scan" \in DOMAIN parts /\ parts["/security-scan"].kind # "dict"
    THEN "false"
    ELSE GetIsValid(code_validation)

\* the `is_valid` of the combined validation dictionary, line 414
OverallIsValid(code_validation) == GetIsValid(code_validation)

\* the validation gate of handle_orchestrate, line 420
HGatePasses(validation) == Truthy(GetIsValid(validation))

\* what handle_orchestrate does with the result of call `step`
HAdvance(result) ==
    LET c == ORCHESTRATION[step]
        ps == Put(parts, c.path, result)
        combined == IF c.stage = "validation"
                    THEN Out("combined", OverallIsValid(ps["/validate-code"]))
                    ELSE Out("combined", "absent")
    IN
    /\ parts' = ps
    /\ results' = IF LastOfStage(step) THEN Put(results, c.stage, combined) ELSE results
    /\ IF LastOfStage(step) /\ c.stage = "validation" /\ ~HGatePasses(combined)
       THEN /\ status' = "validation_failed"
            /\ pc' = "h_persist"
            /\ UNCHANGED step
       ELSE IF step = Len(ORCHESTRATION)
       THEN /\ status' = "deployed"
            /\ pc' = "h_persist"
            /\ UNCHANGED step
       ELSE /\ pc' = "h_limit"
            /\ step' = step + 1
            /\ UNCHANGED status

\* lambda_client.invoke answers, lines 615-633
HReceive ==
    /\ entry = "lambda"
    /\ pc = "h_await"
    /\ inflight' = inflight \ {ORCHESTRATION[step].path}
    /\ \E body \in LambdaBodies(ORCHESTRATION[step].path) :
          /\ body.shape # "result" => hist.odd < MaxOddResponses
          /\ HAdvance(invoke_agent_lambda_result(body))
          /\ hist' = [hist EXCEPT
                 !.odd = IF body.shape # "result" THEN @ + 1 ELSE @,
                 !.produced = IF LastOfStage(step) THEN @ \cup {ORCHESTRATION[step].stage} ELSE @]
    /\ UNCHANGED <<entry, env, attempt, planned, lastError, waits, stageLog, apiCalls,
                   final, table>>
    /\ UNCHANGED throttleVars

\* invoke_agent_lambda calling the agent again after a throttling failure
HReceiveFailure_RetryThrottling ==
    /\ entry = "lambda"
    /\ pc = "h_await"
    /\ inflight' = inflight \ {ORCHESTRATION[step].path}
    /\ \/ /\ hist.fails < 1
          /\ pc' = "h_invoke"
          /\ hist' = [hist EXCEPT !.fails = @ + 1]
          /\ UNCHANGED <<status, final, table>>
       \/ \E kind \in {"other", "unparsed"} :
             /\ HRaise(Err("invoke_failed", kind, 0))
             /\ hist' = [hist EXCEPT !.raised = Append(@, ORCHESTRATION[step].path),
                                     !.unparsed = IF kind = "unparsed"
                                                  THEN @ \cup {ORCHESTRATION[step].path} ELSE @]
    /\ UNCHANGED <<entry, env, step, attempt, planned, lastError, waits, stageLog,
                   apiCalls, parts, results>>
    /\ UNCHANGED throttleVars

\* lambda_client.invoke raises, the status code is not 200, or the body is not
\* JSON: lines 634-642
HReceiveFailure ==
    /\ entry = "lambda"
    /\ pc = "h_await"
    /\ inflight' = inflight \ {ORCHESTRATION[step].path}
    /\ \E kind \in {"throttling", "other", "unparsed"} :
          /\ HRaise(Err("invoke_failed", kind, 0))
          /\ hist' = [hist EXCEPT !.raised = Append(@, ORCHESTRATION[step].path),
                                  !.unparsed = IF kind = "unparsed"
                                               THEN @ \cup {ORCHESTRATION[step].path} ELSE @,
                                  !.record = Append(@, ErrorWrite)]
    /\ UNCHANGED <<entry, env, step, attempt, planned, lastError, waits, stageLog,
                   apiCalls, parts, results>>
    /\ UNCHANGED throttleVars

\* handle_orchestrate returning a final result without its "results" entry
HPersist_NoResults ==
    /\ entry = "lambda"
    /\ pc = "h_persist"
    /\ \/ /\ table' = Put(table, "supervisor", "success")
          /\ final' = Final(status, FALSE, EmptyMap, NoError, 200)
          /\ pc' = "done"
          /\ UNCHANGED <<status, hist>>
       \/ /\ HRaise(Err("log_output_failed", "none", 0))
          /\ hist' = [hist EXCEPT !.raised = Append(@, "log_inference_output")]
    /\ UNCHANGED <<entry, env, step, attempt, planned, lastError, waits, stageLog,
                   apiCalls, inflight, parts, results>>
    /\ UNCHANGED throttleVars

\* lines 515-545: log the final result, save it, return it
HPersist ==
    /\ entry = "lambda"
    /\ pc = "h_persist"
    /\ \/ \* log_inference_output and save_converted_artifact succeed
          /\ table' = Put(table, "supervisor", "success")
          /\ final' = Final(status, TRUE, results, NoError, 200)
          /\ pc' = "done"
          /\ hist' = [hist EXCEPT !.record = Append(@, "success")]
          /\ UNCHANGED status
       \/ \* log_inference_output raises
          /\ HRaise(Err("log_output_failed", "none", 0))
          /\ hist' = [hist EXCEPT !.raised = Append(@, "log_inference_output"),
                                  !.record = Append(Append(@, "unreachable"), ErrorWrite)]
       \/ \* save_converted_artifact raises after the record was updated: the
          \* except clause's log_error_to_dynamodb stores error over success, or raises
          /\ \/ table' = Put(table, "supervisor", "error")
             \/ table' = Put(table, "supervisor", "success")
          /\ Http500(Err("save_failed", "none", 0))
          /\ hist' = [hist EXCEPT !.raised = Append(@, "save_converted_artifact"),
                                  !.record = Append(Append(@, "success"),
                                                    IF table'["supervisor"] = "error"
                                                    THEN "error" ELSE "unreachable")]
    /\ UNCHANGED <<entry, env, step, attempt, planned, lastError, waits, stageLog,
                   apiCalls, inflight, parts, results>>
    /\ UNCHANGED throttleVars

----------------------------------------------------------------------------
(* collaborators/*.py: the stage functions analyze, design, generate, validate *)

STAGE_FUNCTIONS == {"analyze", "design", "generate", "validate"}

\* agent_name under which the function logs
AgentNameOf(fn) ==
    IF fn = "analyze" THEN "requirements-analyst"
    ELSE IF fn = "design" THEN "solution-architect"
    ELSE IF fn = "generate" THEN "code-generator"
    ELSE "quality-validator"

\* does the function call dynamodb_client.log_inference_input / log_inference_output
LogsInference(fn) == fn \in {"analyze", "design", "generate"}

\* does the function check the parsed value's structure (validate_*_structure)
ChecksStructure(fn) == fn \in {"analyze", "design", "generate"}

\* a stage function raises: nothing catches it
CRaise(e) ==
    /\ status' = "error"
    /\ final' = Final("error", FALSE, EmptyMap, e, 0)
    /\ pc' = "done"
    /\ hist' = [hist EXCEPT !.raised = Append(@, env.fn)]

\* get_stack_outputs and the agent id check
CStart ==
    /\ entry = "collaborator"
    /\ pc = "start"
    /\ IF env.unconfigured = env.fn
       THEN CRaise(Err("missing_configuration", "none", 0))
       ELSE /\ pc' = IF LogsInference(env.fn) THEN "c_log_input" ELSE "c_limit"
            /\ UNCHANGED <<status, final, hist>>
    /\ UNCHANGED <<entry, env, step, attempt, planned, lastError, waits, stageLog,
                   apiCalls, inflight, parts, results, table>>
    /\ UNCHANGED throttleVars

\* dynamodb_client.log_inference_input
CLogInput ==
    /\ entry = "collaborator"
    /\ pc = "c_log_input"
    /\ \/ /\ table' = Put(table, AgentNameOf(env.fn), "in_progress")
          /\ pc' = "c_limit"
          /\ UNCHANGED <<status, final, hist>>
       \/ /\ CRaise(Err("log_input_failed", "none", 0))
          /\ UNCHANGED table
    /\ UNCHANGED <<entry, env, step, attempt, planned, lastError, waits, stageLog,
                   apiCalls, inflight, parts, results>>
    /\ UNCHANGED throttleVars

\* apply_rate_limiting('<agent>-bedrock')
CRateLimit ==
    /\ entry = "collaborator"
    /\ pc = "c_limit"
    /\ hist' = [hist EXCEPT !.limited = @ + 1]
    /\ pc' = "c_invoke"
    /\ UNCHANGED <<entry, env, step, attempt, planned, lastError, waits, stageLog,
                   apiCalls, inflight, parts, results, status, final, table>>
    /\ UNCHANGED throttleVars

\* invoke_bedrock_agent sends invoke_agent
CInvoke ==
    /\ entry = "collaborator"
    /\ pc = "c_invoke"
    /\ stageLog' = Append(stageLog, env.fn)
    /\ apiCalls' = Append(apiCalls, AgentNameOf(env.fn))
    /\ inflight' = inflight \cup {env.fn}
    /\ pc' = "c_await"
    /\ UNCHANGED <<entry, env, step, attempt, planned, lastError, waits, parts, results,
                   status, final, table, hist>>
    /\ UNCHANGED throttleVars

\* the response arrives (or invoke_bedrock_agent raises) and is parsed:
\* extract_json_from_markdown, json.loads, validate_*_structure
CReceive ==
    /\ entry = "collaborator"
    /\ pc = "c_await"
    /\ inflight' = inflight \ {env.fn}
    /\ \/ \E iv \in (IF env.fn = "validate" THEN {"true", "false", "absent"} ELSE {"absent"}) :
             /\ results' = Put(results, AgentNameOf(env.fn),
                                Out("dict", IF env.fn = "validate"
                                            THEN GetIsValid(Out("dict", iv)) ELSE iv))
             /\ pc' = IF LogsInference(env.fn) THEN "c_log_output" ELSE "c_save"
             /\ UNCHANGED <<status, final, hist>>
       \/ \E kind \in {"throttling", "other", "unparsed"} :
             /\ CRaise(Err("invoke_failed", kind, 0))
             /\ UNCHANGED results
       \/ /\ ChecksStructure(env.fn)
          /\ CRaise(Err("missing_section", "none", 0))
          /\ UNCHANGED results
    /\ UNCHANGED <<entry, env, step, attempt, planned, lastError, waits, stageLog,
                   apiCalls, parts, table>>
    /\ UNCHANGED throttleVars

\* log_inference_output wrapped in a try/except that only warns
CLogOutput_WarnOnly ==
    /\ entry = "collaborator"
    /\ pc = "c_log_output"
    /\ \/ table' = Put(table, AgentNameOf(env.fn), "success")
       \/ table' = table
    /\ pc' = "c_save"
    /\ UNCHANGED <<status, final, hist>>
    /\ UNCHANGED <<entry, env, step, attempt, planned, lastError, waits, stageLog,
                   apiCalls, inflight, parts, results>>
    /\ UNCHANGED throttleVars

\* dynamodb_client.log_inference_output
CLogOutput ==
    /\ entry = "collaborator"
    /\ pc = "c_log_output"
    /\ \/ /\ table' = Put(table, AgentNameOf(env.fn), "success")
          /\ pc' = "c_save"
          /\ UNCHANGED <<status, final, hist>>
       \/ /\ CRaise(Err("log_output_failed", "none", 0))
          /\ UNCHANGED table
    /\ UNCHANGED <<entry, env, step, attempt, planned, lastError, waits, stageLog,
                   apiCalls, inflight, parts, results>>
    /\ UNCHANGED throttleVars

\* s3_client.save_converted_artifact and the return
CSave ==
    /\ entry = "collaborator"
    /\ pc = "c_save"
    /\ \/ /\ status' = "success"
          /\ final' = Final("success", TRUE, results, NoError, 0)
          /\ pc' = "done"
          /\ UNCHANGED hist
       \/ CRaise(Err("save_failed", "none", 0))
    /\ UNCHANGED <<entry, env, step, attempt, planned, lastError, waits, stageLog,
                   apiCalls, inflight, parts, results, table>>
    /\ UNCHANGED throttleVars

----------------------------------------------------------------------------
(* lambda/quality-validator/handler.py: an agent Lambda's lambda_handler     *)
(* with its action handlers.  entry = "agent_lambda"; env is the event: its  *)
(* apiPath and the job_name among its properties ("": absent).               *)

AGENT_API_PATHS == {"/validate-code", "/security-scan", "/compliance-check"}

\* the Bedrock Agent response event lambda_handler returns, lines 75-88 and
\* 109-125: the body is the action's result or {error, status: error}
AgentResponse(st, has, res, e, code) ==
    [status |-> st, hasResults |-> has, results |-> res, error |-> e, http |-> code,
     messageVersion |-> "1.0"]

\* variant: the except clause logs and re-raises
AgentHttp500_Reraise(e) ==
    /\ status' = "raised"
    /\ final' = NoFinal
    /\ pc' = "done"
    /\ hist' = [hist EXCEPT !.raised = Append(@, e.type)]

\* the calls that record or save the result: log_inference_output,
\* save_converted_artifact, save_raw_response
PersistenceFailures == {"log_output_failed", "save_failed"}

\* lambda_handler's except clause, lines 93-125
AgentHttp500(e) ==
    /\ status' = "error"
    /\ final' = AgentResponse("error", FALSE, EmptyMap, e, 500)
    /\ pc' = "done"
    /\ hist' = [hist EXCEPT !.raised = Append(@, e.type)]

\* lambda_handler lines 34-72 and the action handler up to its parameter
\* check, lines 148-152
AgentStart ==
    /\ entry = "agent_lambda"
    /\ pc = "start"
    /\ IF env.apiPath \notin AGENT_API_PATHS
       THEN AgentHttp500(Err("unknown_api_path", "none", 0))
       ELSE IF env.job_name = ""
       THEN AgentHttp500(Err("missing_parameter", "none", 0))
       ELSE /\ pc' = "a_log_input"
            /\ UNCHANGED <<status, final, hist>>
    /\ UNCHANGED <<entry, env, step, attempt, planned, lastError, waits, stageLog,
                   apiCalls, inflight, parts, results, table>>
    /\ UNCHANGED throttleVars

\* log_inference_input, lines 155-162, outside the action handler's try
AgentLogInput ==
    /\ entry = "agent_lambda"
    /\ pc = "a_log_input"
    /\ \/ /\ table' = Put(table, "quality-validator", "in_progress")
          /\ pc' = "a_handle"
          /\ UNCHANGED <<status, final, hist>>
       \/ /\ AgentHttp500(Err("log_input_failed", "none", 0))
          /\ UNCHANGED table
    /\ UNCHANGED <<entry, env, step, attempt, planned, lastError, waits, stageLog,
                   apiCalls, inflight, parts, results>>
    /\ UNCHANGED throttleVars

\* the action handler's try block and except clause, lines 164-291, then
\* lambda_handler lines 75-91: the result is computed, recorded and saved;
\* when recording or saving raises, log_error_to_dynamodb runs (and may raise
\* itself) and the exception goes to lambda_handler's except clause
AgentHandle ==
    /\ entry = "agent_lambda"
    /\ pc = "a_handle"
    /\ \E iv \in IF env.apiPath = "/validate-code" THEN {"true", "false"} ELSE {"absent"} :
          LET result == Out("dict", iv) IN
          \/ /\ results' = Put(results, env.apiPath, result)
             /\ table' = Put(table, "quality-validator", "success")
             /\ status' = "success"
             /\ final' = AgentResponse("success", TRUE, results', NoError, 200)
             /\ pc' = "done"
             /\ UNCHANGED hist
          \/ /\ \E cause \in PersistenceFailures, logged \in BOOLEAN :
                   /\ table' = IF logged THEN Put(table, "quality-validator", "error")
                               ELSE IF cause = "log_output_failed" THEN table
                               ELSE Put(table, "quality-validator", "success")
                   /\ AgentHttp500(Err(cause, IF logged THEN "none" ELSE "log_error_failed", 0))
             /\ UNCHANGED results
    /\ UNCHANGED <<entry, env, step, attempt, planned, lastError, waits, stageLog,
                   apiCalls, inflight, parts>>
    /\ UNCHANGED throttleVars

----------------------------------------------------------------------------
(* shared/utils/agentcore_rate_limiter.py: apply_rate_limiting *)

Callers == 1..NumCallers

\* the clock starts late enough that an empty store (last_invocation_time = 0)
\* asks for no wait, as with time.time()
StartOfTime == AGENT_INVOKE_DELAY

EndOfTime == StartOfTime + Horizon

\* delay = custom_delay or AGENT_INVOKE_DELAY: None and 0 are both falsy, and
\* both are the 0 here
EffectiveDelay(custom_delay) ==
    IF custom_delay = 0 THEN AGENT_INVOKE_DELAY ELSE custom_delay

Delay == EffectiveDelay(env.custom_delay)

Max(S) == CHOOSE x \in S : \A y \in S : y <= x

\* lines 56-79: the most recent lastInvocation time among the records, 0 if none
LastInvocationTime(records) ==
    Max({0} \cup { r.time : r \in records })

\* the function without lines 83-86: it never sleeps after a retrieval
SleepTime_NoWait(current_time, last_invocation_time, delay) == 0

\* lines 82-88: the sleep asked for after a successful retrieval
SleepTime(current_time, last_invocation_time, delay) ==
    IF current_time - last_invocation_time < delay
    THEN delay - (current_time - last_invocation_time)
    ELSE 0

\* line 93: the sleep after a failed retrieval
FallbackSleep(delay) == delay

\* lines 112-113: a failed create_event is logged and the function returns
AfterRecordError == "idle"

\* the locals of one caller; `last` summarises its latest finished call: was
\* the store unreachable for the read or the write, and did at least the full
\* delay pass between entering and leaving the function
IdleCaller ==
    [pc |-> "idle", current_time |-> 0, wakeAt |-> 0, calls |-> 0,
     startedAt |-> 0, failedAt |-> 0, readFailed |-> FALSE,
     last |-> [readFailed |-> FALSE, writeFailed |-> FALSE, fullDelay |-> FALSE]]

\* the calls begun so far by all callers
CallsBegun ==
    Cardinality({ x \in Callers \X (1..MaxCallsPerCaller) :
                    x[2] <= lim[x[1]].calls + (IF lim[x[1]].pc = "idle" THEN 0 ELSE 1) })

\* line 43: current_time = time.time()
LStart(c) ==
    /\ lim[c].pc = "idle"
    /\ lim[c].calls < MaxCallsPerCaller
    /\ CallsBegun < MaxCalls
    /\ lim' = [lim EXCEPT ![c] = [@ EXCEPT !.pc = "retrieve", !.current_time = now,
                                            !.startedAt = now]]
    /\ UNCHANGED <<now, lease>>
    /\ UNCHANGED pipeVars

\* lines 46-93: retrieve_memory_records, then the wait is decided
LRetrieve(c) ==
    /\ lim[c].pc = "retrieve"
    /\ \/ LET sleep_time == SleepTime(lim[c].current_time, LastInvocationTime(lease), Delay) IN
          lim' = [lim EXCEPT ![c] = [@ EXCEPT !.pc = IF sleep_time > 0 THEN "sleep" ELSE "record",
                                               !.wakeAt = now + sleep_time]]
       \/ lim' = [lim EXCEPT ![c] = [@ EXCEPT !.pc = "sleep",
                                               !.readFailed = TRUE,
                                               !.failedAt = now,
                                               !.wakeAt = now + FallbackSleep(Delay)]]
    /\ UNCHANGED <<now, lease>>
    /\ UNCHANGED pipeVars

\* time.sleep returns
LWake(c) ==
    /\ lim[c].pc = "sleep"
    /\ now >= lim[c].wakeAt
    /\ lim' = [lim EXCEPT ![c] = [@ EXCEPT !.pc = "record"]]
    /\ UNCHANGED <<now, lease>>
    /\ UNCHANGED pipeVars

\* the caller's locals once the function is left with the create_event outcome
Left(l, pcAfter, writeFailed) ==
    [IdleCaller EXCEPT !.pc = pcAfter, !.calls = l.calls + 1,
                       !.last = [readFailed |-> l.readFailed, writeFailed |-> writeFailed,
                                 fullDelay |-> now - l.startedAt >= Delay]]

\* lines 96-113: create_event with a fresh timestamp, then the function returns
LRecord(c) ==
    /\ lim[c].pc = "record"
    /\ \/ /\ lease' = lease \cup {[time |-> now, agent |-> c]}
          /\ lim' = [lim EXCEPT ![c] = Left(@, "idle", FALSE)]
       \/ /\ lease' = lease
          /\ lim' = [lim EXCEPT ![c] = Left(@, AfterRecordError, TRUE)]
    /\ UNCHANGED now
    /\ UNCHANGED pipeVars

\* a second passes
Tick ==
    /\ now < EndOfTime
    /\ now' = now + 1
    /\ UNCHANGED <<lim, lease>>
    /\ UNCHANGED pipeVars

----------------------------------------------------------------------------
(* Response texts, token by token.  A text is a sequence of tokens:          *)
(*   "F" a fence of three backquotes    "j" the word json                    *)
(*   "n" a newline    "s" a space       "Q" a double quote                   *)
(*   "{" "}" ":" ","                    "a" "b" any other word               *)

IsWs(c) == c \in {"n", "s"}

\* the first position from i on that holds no whitespace (Len(t) + 1 if none)
SkipWs(t, i) ==
    IF \E j \in i..Len(t) : ~IsWs(t[j])
    THEN CHOOSE j \in i..Len(t) : ~IsWs(t[j]) /\ \A k \in i..(j - 1) : IsWs(t[k])
    ELSE Len(t) + 1

\* str.strip()
Strip(t) ==
    LET first == SkipWs(t, 1) IN
    IF first > Len(t) THEN <<>>
    ELSE LET last == CHOOSE j \in first..Len(t) :
                        ~IsWs(t[j]) /\ \A k \in (j + 1)..Len(t) : IsWs(t[k])
         IN SubSeq(t, first, last)

\* str.startswith / str.endswith for one token
StartsWith(t, c) == Len(t) >= 1 /\ t[1] = c

EndsWith(t, c) == Len(t) >= 1 /\ t[Len(t)] = c

(* json.loads, for the JSON made of objects and strings.  A result is        *)
(* [ok, val, next, err]: val is a JStr or a JObj, next the position after    *)
(* the value, err the decoder's message when ok is FALSE.                    *)

JStr(content) == [t |-> "str", v |-> content]

JObj(members) == [t |-> "obj", v |-> members]

JOk(val, next) == [ok |-> TRUE, val |-> val, next |-> next, err |-> "none"]

JFail(msg) == [ok |-> FALSE, val |-> JStr(<<>>), next |-> 0, err |-> msg]

\* equality of two decoded values
RECURSIVE JEq(_, _)
JEq(x, y) ==
    /\ x.t = y.t
    /\ IF x.t = "str" THEN x.v = y.v
       ELSE /\ DOMAIN x.v = DOMAIN y.v
            /\ \A k \in DOMAIN x.v : JEq(x.v[k], y.v[k])

\* a string starting at the quote t[i]: up to the next quote, no raw newline
ScanString(t, i) ==
    IF ~\E j \in (i + 1)..Len(t) : t[j] = "Q"
    THEN JFail("Unterminated string")
    ELSE LET j == CHOOSE j \in (i + 1)..Len(t) :
                     t[j] = "Q" /\ \A k \in (i + 1)..(j - 1) : t[k] # "Q"
         IN IF \E k \in (i + 1)..(j - 1) : t[k] = "n"
            THEN JFail("Invalid control character")
            ELSE JOk(JStr(SubSeq(t, i + 1, j - 1)), j + 1)

RECURSIVE ParseValue(_, _)
RECURSIVE ParseMembers(_, _, _)

\* the members of an object from the key at position i on; acc holds the
\* members decoded so far (a later member replaces an earlier one of its key)
ParseMembers(t, i, acc) ==
    IF i > Len(t) \/ t[i] # "Q"
    THEN JFail("Expecting property name enclosed in double quotes")
    ELSE LET key == ScanString(t, i) IN
         IF ~key.ok THEN key
         ELSE LET c == SkipWs(t, key.next) IN
              IF c > Len(t) \/ t[c] # ":"
              THEN JFail("Expecting ':' delimiter")
              ELSE LET val == ParseValue(t, SkipWs(t, c + 1)) IN
                   IF ~val.ok THEN val
                   ELSE LET m == SkipWs(t, val.next)
                            members == (key.val.v :> val.val) @@ acc
                        IN IF m <= Len(t) /\ t[m] = "}"
                           THEN JOk(JObj(members), m + 1)
                           ELSE IF m > Len(t) \/ t[m] # ","
                           THEN JFail("Expecting ',' delimiter")
                           ELSE ParseMembers(t, SkipWs(t, m + 1), members)

ParseValue(t, i) ==
    IF i > Len(t) THEN JFail("Expecting value")
    ELSE IF t[i] = "Q" THEN ScanString(t, i)
    ELSE IF t[i] = "{"
    THEN LET j == SkipWs(t, i + 1) IN
         IF j <= Len(t) /\ t[j] = "}"
         THEN JOk(JObj([k \in {} |-> 0]), j + 1)
         ELSE ParseMembers(t, j, [k \in {} |-> 0])
    ELSE JFail("Expecting value")

\* json.loads(text)
JsonLoads(t) ==
    LET r == ParseValue(t, SkipWs(t, 1)) IN
    IF ~r.ok THEN r
    ELSE IF SkipWs(t, r.next) <= Len(t) THEN JFail("Extra data")
    ELSE r

----------------------------------------------------------------------------
(* collaborators/*.py: extract_json_from_markdown, one version per module.   *)
(* A pattern's result is [found, group]: re.findall(...)[0] when found.      *)

Found(group) == [found |-> TRUE, group |-> group]

NotFound == [found |-> FALSE, group |-> <<>>]

\* is a fence at position i, followed by the label when one is asked for
FenceAt(t, i, labelled) ==
    /\ i <= Len(t)
    /\ t[i] = "F"
    /\ labelled => (i + 1 <= Len(t) /\ t[i + 1] = "j")

\* number of tokens of the opening: the fence, and its label
OpeningLen(labelled) == IF labelled THEN 2 ELSE 1

\* r'```json\s*(.*?)```' and r'```\s*(.*?)```' (requirements_analyst.py lines
\* 70-71, 77-78): from the leftmost opening that has a fence after it, up to
\* the nearest such fence
LooseBlock(t, labelled) ==
    LET off == OpeningLen(labelled)
        starts == { i \in 1..Len(t) :
                      /\ FenceAt(t, i, labelled)
                      /\ \E k \in (i + off)..Len(t) : t[k] = "F" }
    IN IF starts = {} THEN NotFound
       ELSE LET i == CHOOSE x \in starts : \A y \in starts : x <= y
                k == CHOOSE x \in (i + off)..Len(t) :
                        t[x] = "F" /\ \A y \in (i + off)..(x - 1) : t[y] # "F"
            IN Found(SubSeq(t, i + off, k - 1))

\* the group r'\s*\n(.*?)\n```' captures after an opening that ends before
\* position a: the whitespace after the opening must hold a newline, and the
\* group ends before the nearest newline that a fence follows
LineBlockAt(t, a) ==
    LET w == SkipWs(t, a)
        nls == { b \in a..(w - 1) : t[b] = "n" }
    IN IF nls = {} THEN NotFound
       ELSE LET bLast == CHOOSE b \in nls : \A c \in nls : c <= b
                ends == { e \in (bLast + 1)..(Len(t) - 1) : t[e] = "n" /\ t[e + 1] = "F" }
            IN IF ends # {}
               THEN Found(SubSeq(t, bLast + 1, (CHOOSE e \in ends : \A f \in ends : e <= f) - 1))
               ELSE IF Cardinality(nls) >= 2 /\ w <= Len(t) /\ t[w] = "F" /\ bLast = w - 1
               THEN Found(<<>>)
               ELSE NotFound

\* r'```json\s*\n(.*?)\n```' and r'```\s*\n(.*?)\n```' (code_generator.py
\* lines 46-47, 53-54): the match at the leftmost opening that has one
LineBlock(t, labelled) ==
    LET off == OpeningLen(labelled)
        starts == { i \in 1..Len(t) :
                      FenceAt(t, i, labelled) /\ LineBlockAt(t, i + off).found }
    IN IF starts = {} THEN NotFound
       ELSE LineBlockAt(t, (CHOOSE x \in starts : \A y \in starts : x <= y) + off)

\* the two fixes of the whole response: a missing opening brace, a missing
\* closing brace
RepairBraces(text) ==
    LET result == Strip(text)
        opened == IF StartsWith(result, "Q") THEN <<"{">> \o result ELSE result
    IN IF StartsWith(opened, "{") /\ ~EndsWith(opened, "}")
       THEN Append(opened, "}")
       ELSE opened

\* re.sub(r'([}\]"])\s*\n\s*"', r'\1,\n"', result), from position i on
RECURSIVE InsertCommas(_, _)
InsertCommas(t, i) ==
    IF i > Len(t) THEN <<>>
    ELSE LET q == SkipWs(t, i + 1) IN
         IF /\ t[i] \in {"}", "Q"}
            /\ q <= Len(t)
            /\ t[q] = "Q"
            /\ \E b \in (i + 1)..(q - 1) : t[b] = "n"
         THEN <<t[i], ",", "n", "Q">> \o InsertCommas(t, q + 1)
         ELSE <<t[i]>> \o InsertCommas(t, i + 1)

\* str.rstrip('`')
RECURSIVE RStripFences(_)
RStripFences(t) ==
    IF EndsWith(t, "F") THEN RStripFences(SubSeq(t, 1, Len(t) - 1)) ELSE t

\* the group of a pattern, stripped, when it was found and, if asked, looks
\* like JSON (lines 73-74 and 80-83 of requirements_analyst.py)
Stripped(m) == Strip(m.group)

LooksLikeJson(t) == StartsWith(t, "{")

\* requirements_analyst.py, lines 64-96
extract_json_from_markdown_analyst(text) ==
    LET labelled == LooseBlock(text, TRUE)
        any == LooseBlock(text, FALSE)
    IN IF labelled.found THEN Stripped(labelled)
       ELSE IF any.found /\ LooksLikeJson(Stripped(any)) THEN Stripped(any)
       ELSE RepairBraces(text)

\* code_generator.py and solution_architect.py, lines 41-62
extract_json_from_markdown_generator(text) ==
    LET labelled == LineBlock(text, TRUE)
        any == LineBlock(text, FALSE)
    IN IF labelled.found THEN Stripped(labelled)
       ELSE IF any.found /\ LooksLikeJson(Stripped(any)) THEN Stripped(any)
       ELSE Strip(text)

\* quality_validator.py lines 52-59: a response that starts with ```json and
\* has no closing line: the opening and trailing backquotes are removed
UnclosedBlock(text) ==
    LET whole == Strip(text) IN
    IF Len(whole) >= 2 /\ whole[1] = "F" /\ whole[2] = "j"
    THEN Found(Strip(RStripFences(Strip(SubSeq(whole, 3, Len(whole))))))
    ELSE NotFound

\* quality_validator.py lines 70-97: the fixes, and the missing-comma fix
\* when the decoder asks for a comma
RepairAndRetry(text) ==
    LET result == RepairBraces(text)
        first == JsonLoads(result)
    IN IF first.ok THEN result
       ELSE IF first.err = "Expecting ',' delimiter" THEN InsertCommas(result, 1)
       ELSE result

\* quality_validator.py, lines 41-97
extract_json_from_markdown_validator(text) ==
    LET labelled == LineBlock(text, TRUE)
        unclosed == UnclosedBlock(text)
        any == LineBlock(text, FALSE)
    IN IF labelled.found THEN Stripped(labelled)
       ELSE IF unclosed.found /\ LooksLikeJson(unclosed.group) THEN unclosed.group
       ELSE IF any.found /\ LooksLikeJson(Stripped(any)) THEN Stripped(any)
       ELSE RepairAndRetry(text)

\* the extract_json_from_markdown of the module that defines the stage function
extract_json_from_markdown(fn, text) ==
    IF fn = "analyze" THEN extract_json_from_markdown_analyst(text)
    ELSE IF fn = "validate" THEN extract_json_from_markdown_validator(text)
    ELSE extract_json_from_markdown_generator(text)

(* shared/utils/supervisor_parser.py: extract_json_from_supervisor_response  *)

\* r'```\s*\n(\{.*?\})\s*\n```' (line 33): a brace right after the newline of
\* the opening, up to the nearest brace that a closing line follows
BraceBlock(t) ==
    LET closes(w) == { r \in (w + 1)..Len(t) :
                         /\ t[r] = "}"
                         /\ LET f == SkipWs(t, r + 1) IN
                            f <= Len(t) /\ t[f] = "F" /\ f - 1 > r /\ t[f - 1] = "n" }
        starts == { i \in 1..Len(t) :
                      /\ t[i] = "F"
                      /\ LET w == SkipWs(t, i + 1) IN
                         /\ w <= Len(t) /\ t[w] = "{"
                         /\ w - 1 > i /\ t[w - 1] = "n"
                         /\ closes(w) # {} }
    IN IF starts = {} THEN NotFound
       ELSE LET i == CHOOSE x \in starts : \A y \in starts : x <= y
                w == SkipWs(t, i + 1)
                r == CHOOSE x \in closes(w) : \A y \in closes(w) : x <= y
            IN Found(SubSeq(t, w, r))

\* r'(\{[^{}]*(?:\{[^{}]*\}[^{}]*)*\})' (line 38) tried at the brace t[i]:
\* the position of the closing brace, 0 if none; inner tells whether an
\* inner object is open
RECURSIVE BraceMatch(_, _, _)
BraceMatch(t, k, inner) ==
    IF k > Len(t) THEN 0
    ELSE IF t[k] = "}" THEN (IF inner THEN BraceMatch(t, k + 1, FALSE) ELSE k)
    ELSE IF t[k] = "{" THEN (IF inner THEN 0 ELSE BraceMatch(t, k + 1, TRUE))
    ELSE BraceMatch(t, k + 1, inner)

AnyObject(t) ==
    LET starts == { i \in 1..Len(t) : t[i] = "{" /\ BraceMatch(t, i + 1, FALSE) # 0 } IN
    IF starts = {} THEN NotFound
    ELSE LET i == CHOOSE x \in starts : \A y \in starts : x <= y
         IN Found(SubSeq(t, i, BraceMatch(t, i + 1, FALSE)))

\* lines 26-60: the decoded object, or a failure (ValueError)
extract_json_from_supervisor_response(text) ==
    LET labelled == LineBlock(text, TRUE)
        plain == BraceBlock(text)
        object == AnyObject(text)
    IN IF labelled.found THEN JsonLoads(Stripped(labelled))
       ELSE IF plain.found THEN JsonLoads(Stripped(plain))
       ELSE IF object.found THEN JsonLoads(Stripped(object))
       ELSE JFail("No JSON code blocks found in supervisor response")

----------------------------------------------------------------------------
(* Specification *)

\* nothing observed yet
NoHist ==
    [unparsed |-> {},    \* invoker entries that received a response that is not JSON
     raised |-> <<>>,    \* invoker entries (or persistence calls) that raised
     produced |-> {},    \* result keys whose stage returned an output
     ended |-> <<>>,     \* the finished invoke_collaborator calls
     sent |-> 0,         \* API calls sent by the current invoke_collaborator call
     fails |-> 0,        \* failures received by the current invoke_collaborator call
     limited |-> 0,      \* apply_rate_limiting calls made
     odd |-> 0,          \* agent Lambda answers other than the action's result
     inputs |-> <<>>,    \* the inputs handed to the invoker entries, in order
     job_name |-> "none",  \* "generated" once generate_job_name has run
     earlier |-> <<>>,   \* how the earlier runs of the same request ended
     record |-> <<>>]    \* the writes to handle_orchestrate's inference record, in
                         \* order: the status stored, or "unreachable" if the write raised

Env(p, m, u, a, f) ==
    [prompt |-> p, MOCK_MODE |-> m, unconfigured |-> u, apiPath |-> a, fn |-> f,
     answers |-> "schema"]   \* the quality validator's is_valid is a boolean

\* the environments of each entry point
AgentcoreEnvs ==
    { Env(p, m, u, "none", "none") :
        p \in {"", "request"}, m \in BOOLEAN, u \in {"none"} \cup COLLABORATORS }

LambdaEnvs ==
    { Env(p, FALSE, "none", a, "none") :
        p \in {"", "request"}, a \in {"/orchestrate", "/unknown"} }

CollaboratorEnvs ==
    { Env("request", FALSE, u, "none", f) : f \in STAGE_FUNCTIONS, u \in {"none", "analyze", "design", "generate", "validate"} }

AgentEvents ==
    { [apiPath |-> a, job_name |-> j] :
        a \in AGENT_API_PATHS \cup {"/unknown"}, j \in {"", "job"} }

InitThrottleIdle ==
    /\ now = 0
    /\ lim = EmptyMap
    /\ lease = {}

Init ==
    /\ \/ entry = "agentcore" /\ env \in AgentcoreEnvs
       \/ entry = "lambda" /\ env \in LambdaEnvs
       \/ entry = "collaborator" /\ env \in { e \in CollaboratorEnvs : e.unconfigured \in {"none", e.fn} }
       \/ entry = "agent_lambda" /\ env \in AgentEvents
    /\ pc = "start"
    /\ step = 0
    /\ attempt = 0
    /\ planned = 0
    /\ lastError = NoError
    /\ waits = <<>>
    /\ stageLog = <<>>
    /\ apiCalls = <<>>
    /\ inflight = {}
    /\ parts = EmptyMap
    /\ results = EmptyMap
    /\ status = "running"
    /\ final = NoFinal
    /\ table = EmptyMap
    /\ hist = NoHist
    /\ InitThrottleIdle

Next ==
    \/ SupStart
    \/ BeginCollaborator
    \/ SendInvokeAgent
    \/ ReceiveResponse
    \/ ReceiveFailure
    \/ Backoff
    \/ LambdaStart
    \/ HRateLimit
    \/ HInvoke
    \/ HReceive
    \/ HReceiveFailure
    \/ HPersist
    \/ CStart
    \/ CLogInput
    \/ CRateLimit
    \/ CInvoke
    \/ CReceive
    \/ CLogOutput
    \/ CSave
    \/ AgentStart
    \/ AgentLogInput
    \/ AgentHandle

Spec == Init /\ [][Next]_vars

\* the custom_delay arguments tried
CustomDelays == {0, 2, 3}

InitThrottle ==
    /\ entry = "throttle"
    /\ env \in { [supplied |-> TRUE, custom_delay |-> d] : d \in CustomDelays }
              \cup { [supplied |-> FALSE, custom_delay |-> 0] }   \* custom_delay = None
    /\ pc = "idle"
    /\ step = 0
    /\ attempt = 0
    /\ planned = 0
    /\ lastError = NoError
    /\ waits = <<>>
    /\ stageLog = <<>>
    /\ apiCalls = <<>>
    /\ inflight = {}
    /\ parts = EmptyMap
    /\ results = EmptyMap
    /\ status = "running"
    /\ final = NoFinal
    /\ table = EmptyMap
    /\ hist = NoHist
    /\ now = StartOfTime
    /\ lim = [c \in Callers |-> IdleCaller]
    /\ lease = {}

NextThrottle ==
    \/ \E c \in Callers : LStart(c)
    \/ \E c \in Callers : LRetrieve(c)
    \/ \E c \in Callers : LWake(c)
    \/ \E c \in Callers : LRecord(c)
    \/ Tick

SpecThrottle == InitThrottle /\ [][NextThrottle]_vars

----------------------------------------------------------------------------
(* SpecRerun: the orchestrator is called again for the request of a finished *)
(* run.  The same request in the same second gets the same job name, and the *)
(* records the earlier run stored stay in the table.                         *)

\* what is remembered of a finished run: how it ended and the stages whose
\* outputs it held
EarlierRun == [status |-> status, held |-> DOMAIN results]

\* a new call of the entry point that keeps the local `results` of the
\* earlier call instead of starting from an empty dictionary
Rerun_Resume ==
    /\ entry \in {"agentcore", "lambda"}
    /\ pc = "done"
    /\ Len(hist.earlier) < MaxReruns
    /\ hist' = [NoHist EXCEPT !.earlier = Append(hist.earlier, EarlierRun)]
    /\ pc' = "start"
    /\ step' = 0
    /\ attempt' = 0
    /\ planned' = 0
    /\ lastError' = NoError
    /\ waits' = <<>>
    /\ stageLog' = <<>>
    /\ apiCalls' = <<>>
    /\ inflight' = {}
    /\ parts' = EmptyMap
    /\ status' = "running"
    /\ final' = NoFinal
    /\ UNCHANGED <<entry, env, results, table>>
    /\ UNCHANGED throttleVars

\* a new call of invoke (supervisor_agent.py lines 63-107) or of lambda_handler
\* and handle_orchestrate (handler.py lines 53-95, 174-199): every local starts
\* afresh, job_name is generated again and results is a new dictionary; the
\* function reads no stored record
Rerun ==
    /\ entry \in {"agentcore", "lambda"}
    /\ pc = "done"
    /\ Len(hist.earlier) < MaxReruns
    /\ hist' = [NoHist EXCEPT !.earlier = Append(hist.earlier, EarlierRun)]
    /\ pc' = "start"
    /\ step' = 0
    /\ attempt' = 0
    /\ planned' = 0
    /\ lastError' = NoError
    /\ waits' = <<>>
    /\ stageLog' = <<>>
    /\ apiCalls' = <<>>
    /\ inflight' = {}
    /\ parts' = EmptyMap
    /\ results' = EmptyMap
    /\ status' = "running"
    /\ final' = NoFinal
    /\ UNCHANGED <<entry, env, table>>
    /\ UNCHANGED throttleVars

InitRerun ==
    /\ Init
    /\ entry \in {"agentcore", "lambda"}

NextRerun ==
    \/ SupStart
    \/ BeginCollaborator
    \/ SendInvokeAgent
    \/ ReceiveResponse
    \/ ReceiveFailure
    \/ Backoff
    \/ LambdaStart
    \/ HRateLimit
    \/ HInvoke
    \/ HReceive
    \/ HReceiveFailure
    \/ HPersist
    \/ Rerun

SpecRerun == InitRerun /\ [][NextRerun]_vars

----------------------------------------------------------------------------
(* SpecExtract: the response extraction applied to one response text.        *)
(* entry = "extract"; env holds the function applied, the payload the        *)
(* response was built from and the response text; parts holds the extracted  *)
(* JSON text, results the decoder's result, final what the caller gets.      *)

\* payloads: objects given as the sequence of their <<key, value>> members
Payloads ==
    { << <<<<"a">>, <<"a">>>> >>,                           \* {"a": "a"}
      << <<<<"a">>, <<"a">>>>, <<<<"b">>, <<"a">>>> >>,     \* {"a": "a", "b": "a"}
      << <<<<"a">>, <<"F">>>> >>,                           \* {"a": "```"}
      << <<<<"a">>, <<"F", "j", "{", "}", "F">>>> >>,       \* {"a": "```json{}```"}
      << <<<<"a">>, <<"F", "j", "s", "a", "F">>>> >> }      \* {"a": "```json a```"}

\* json.dumps of the members from the i-th on
RECURSIVE DumpMembers(_, _)
DumpMembers(p, i) ==
    IF i > Len(p) THEN <<>>
    ELSE <<"Q">> \o p[i][1] \o <<"Q", ":", "s", "Q">> \o p[i][2] \o <<"Q">>
         \o (IF i < Len(p) THEN <<",", "s">> ELSE <<>>)
         \o DumpMembers(p, i + 1)

\* json.dumps(payload)
JsonDumps(p) == <<"{">> \o DumpMembers(p, 1) \o <<"}">>

\* the members one per line, with no comma between them
RECURSIVE LinesOfMembers(_, _)
LinesOfMembers(p, i) ==
    IF i > Len(p) THEN <<>>
    ELSE <<"Q">> \o p[i][1] \o <<"Q", ":", "s", "Q">> \o p[i][2] \o <<"Q", "n">>
         \o LinesOfMembers(p, i + 1)

\* the object a payload denotes
PayloadValue(p) ==
    JObj([k \in { p[i][1] : i \in 1..Len(p) } |->
            JStr(p[CHOOSE i \in 1..Len(p) :
                      p[i][1] = k /\ \A j \in (i + 1)..Len(p) : p[j][1] # k][2])])

\* the forms in which a collaborator's response carries the payload
ResponseForms ==
    { "fenced", "fenced_commentary", "fenced_plain", "fenced_one_line", "bare",
      "no_open_brace", "no_close_brace", "no_commas", "prose" }

ResponseText(form, p) ==
    LET d == JsonDumps(p) IN
    IF form = "fenced" THEN <<"F", "j", "n">> \o d \o <<"n", "F">>
    ELSE IF form = "fenced_commentary"
    THEN <<"a", "s", "b", "n", "F", "j", "n">> \o d \o <<"n", "F", "n", "a">>
    ELSE IF form = "fenced_plain" THEN <<"F", "n">> \o d \o <<"n", "F">>
    ELSE IF form = "fenced_one_line" THEN <<"F", "j", "s">> \o d \o <<"F">>
    ELSE IF form = "bare" THEN d
    ELSE IF form = "no_open_brace" THEN Tail(d)
    ELSE IF form = "no_close_brace" THEN SubSeq(d, 1, Len(d) - 1)
    ELSE IF form = "no_commas" THEN <<"{", "n">> \o LinesOfMembers(p, 1) \o <<"}">>
    ELSE <<"a", "s", "b">>

\* the functions that turn a response text into a value
EXTRACTORS ==
    STAGE_FUNCTIONS \cup {"parse_streaming_response", "extract_json_from_supervisor_response"}

\* what parse_streaming_response returns for a text: {"result": result_text}
Placeholder(text) == JObj((<<"result">> :> JStr(text)))

\* the function returns val / raises the decoder's error
XReturn(val) ==
    /\ status' = "success"
    /\ final' = Final("success", TRUE, val, NoError, 0)
    /\ pc' = "done"

XRaise(r) ==
    /\ status' = "error"
    /\ final' = Final("error", FALSE, EmptyMap, Err("json_decode", r.err, 0), 0)
    /\ pc' = "done"

\* json_text = extract_json_from_markdown(bedrock_response)
XExtract ==
    /\ entry = "extract"
    /\ pc = "start"
    /\ env.fn \in STAGE_FUNCTIONS
    /\ parts' = extract_json_from_markdown(env.fn, env.text)
    /\ pc' = "extracted"
    /\ UNCHANGED <<entry, env, step, attempt, planned, lastError, waits, stageLog,
                   apiCalls, inflight, results, status, final, table, hist>>
    /\ UNCHANGED throttleVars

\* json.loads(json_text)
XLoads ==
    /\ entry = "extract"
    /\ pc = "extracted"
    /\ results' = JsonLoads(parts)
    /\ IF results'.ok THEN XReturn(results'.val) ELSE XRaise(results')
    /\ UNCHANGED <<entry, env, step, attempt, planned, lastError, waits, stageLog,
                   apiCalls, inflight, parts, table, hist>>
    /\ UNCHANGED throttleVars

\* parse_streaming_response on the accumulated text, lines 423-427
XParseStream ==
    /\ entry = "extract"
    /\ pc = "start"
    /\ env.fn = "parse_streaming_response"
    /\ results' = JsonLoads(env.text)
    /\ LET out == parse_streaming_response([json |-> results'.ok, is_valid |-> "absent"]) IN
       XReturn(IF out.kind = "dict" THEN results'.val ELSE Placeholder(env.text))
    /\ UNCHANGED <<entry, env, step, attempt, planned, lastError, waits, stageLog,
                   apiCalls, inflight, parts, table, hist>>
    /\ UNCHANGED throttleVars

\* extract_json_from_supervisor_response
XSupervisorParse ==
    /\ entry = "extract"
    /\ pc = "start"
    /\ env.fn = "extract_json_from_supervisor_response"
    /\ results' = extract_json_from_supervisor_response(env.text)
    /\ IF results'.ok THEN XReturn(results'.val) ELSE XRaise(results')
    /\ UNCHANGED <<entry, env, step, attempt, planned, lastError, waits, stageLog,
                   apiCalls, inflight, parts, table, hist>>
    /\ UNCHANGED throttleVars

InitExtract ==
    /\ entry = "extract"
    /\ env \in { [fn |-> f, form |-> m, payload |-> p, text |-> ResponseText(m, p)] :
                   f \in EXTRACTORS, m \in ResponseForms, p \in Payloads }
    /\ pc = "start"
    /\ step = 0
    /\ attempt = 0
    /\ planned = 0
    /\ lastError = NoError
    /\ waits = <<>>
    /\ stageLog = <<>>
    /\ apiCalls = <<>>
    /\ inflight = {}
    /\ parts = <<>>
    /\ results = JFail("none")
    /\ status = "running"
    /\ final = NoFinal
    /\ table = EmptyMap
    /\ hist = NoHist
    /\ InitThrottleIdle

NextExtract ==
    \/ XExtract
    \/ XLoads
    \/ XParseStream
    \/ XSupervisorParse

SpecExtract == InitExtract /\ [][NextExtract]_vars

----------------------------------------------------------------------------
(* SpecJobName: the three generate_job_name functions applied to a request   *)
(* text at a clock reading.  Texts are sequences of characters.              *)

LowerLetters ==
    { "a", "b", "c", "d", "e", "f", "g", "h", "i", "j", "k", "l", "m",
      "n", "o", "p", "q", "r", "s", "t", "u", "v", "w", "x", "y", "z" }

UpperLetters == { "B", "I" }

Digits == { "0", "1", "2", "3", "4", "5", "6", "7", "8", "9" }

\* str.lower()
Lower(t) ==
    [i \in 1..Len(t) |-> IF t[i] = "B" THEN "b" ELSE IF t[i] = "I" THEN "i" ELSE t[i]]

IsAlpha(c) == c \in LowerLetters \cup UpperLetters

\* the class \w
WordChars == LowerLetters \cup UpperLetters \cup Digits \cup {"_"}

\* t[:n]
Take(t, n) == SubSeq(t, 1, IF Len(t) < n THEN Len(t) ELSE n)

\* the end of the maximal run of characters of the class that starts at i
RECURSIVE RunEnd(_, _, _)
RunEnd(t, i, class) ==
    IF i < Len(t) /\ t[i + 1] \in class THEN RunEnd(t, i + 1, class) ELSE i

\* the maximal runs of characters of the class, from position i on
RECURSIVE Runs(_, _, _)
Runs(t, i, class) ==
    IF i > Len(t) THEN <<>>
    ELSE IF t[i] \in class
    THEN LET e == RunEnd(t, i, class) IN <<SubSeq(t, i, e)>> \o Runs(t, e + 1, class)
    ELSE Runs(t, i + 1, class)

\* re.findall(r'\b\w+\b', t)
FindWordRuns(t) == Runs(t, 1, WordChars)

\* re.findall(r'\b[a-zA-Z]+\b', t): the \w runs made of letters only
FindLetterWords(t) ==
    SelectSeq(FindWordRuns(t), LAMBDA w : \A i \in 1..Len(w) : IsAlpha(w[i]))

\* str.split(): the runs of characters other than the space
Split(t) == Runs(t, 1, WordChars \cup {"-"})

\* the first element of the selected words, or default
FirstWord(sel, default) == IF sel = <<>> THEN default ELSE sel[1]

word_agent == <<"a", "g", "e", "n", "t">>

\* job_generator.py: skip_words, max_length, extract_keyword
skip_words ==
    {
      <<"i">>, <<"w", "a", "n", "t">>, <<"n", "e", "e", "d">>, <<"w", "o", "u", "l", "d">>,
      <<"l", "i", "k", "e">>, <<"c", "r", "e", "a", "t", "e">>, <<"b", "u", "i", "l", "d">>, <<"m", "a", "k", "e">>,
      <<"g", "e", "n", "e", "r", "a", "t", "e">>, <<"d", "e", "v", "e", "l", "o", "p">>, <<"d", "e", "s", "i", "g", "n">>, <<"i", "m", "p", "l", "e", "m", "e", "n", "t">>,
      <<"a">>, <<"a", "n">>, <<"t", "h", "e">>, <<"t", "o">>,
      <<"f", "o", "r">>, <<"w", "i", "t", "h">>, <<"t", "h", "a", "t">>, <<"c", "a", "n">>,
      <<"c", "o", "u", "l", "d">>, <<"s", "h", "o", "u", "l", "d">>, <<"w", "i", "l", "l">>, <<"a", "g", "e", "n", "t">>,
      <<"s", "y", "s", "t", "e", "m">>, <<"a", "p", "p", "l", "i", "c", "a", "t", "i", "o", "n">>, <<"a", "p", "p">>, <<"s", "e", "r", "v", "i", "c", "e">>,
      <<"t", "o", "o", "l">> }

max_length == 20

extract_keyword_shared(user_request) ==
    LET words == FindLetterWords(Lower(user_request))
        found == FirstWord(SelectSeq(words, LAMBDA w : w \notin skip_words /\ Len(w) >= 3),
                           <<>>)
    IN IF found # <<>> THEN Take(found, max_length)
       ELSE IF words # <<>> THEN Take(words[1], max_length)
       ELSE word_agent

\* re.sub(r'[\s_]+', '-', t)
RECURSIVE HyphenateRuns(_, _)
HyphenateRuns(t, i) ==
    IF i > Len(t) THEN <<>>
    ELSE IF t[i] \in {" ", "_"}
    THEN <<"-">> \o HyphenateRuns(t, RunEnd(t, i, {" ", "_"}) + 1)
    ELSE <<t[i]>> \o HyphenateRuns(t, i + 1)

\* re.sub(r'-+', '-', t)
RECURSIVE CollapseHyphens(_, _)
CollapseHyphens(t, i) ==
    IF i > Len(t) THEN <<>>
    ELSE IF t[i] = "-"
    THEN <<"-">> \o CollapseHyphens(t, RunEnd(t, i, {"-"}) + 1)
    ELSE <<t[i]>> \o CollapseHyphens(t, i + 1)

\* t.rstrip('-') and t.strip('-')
RECURSIVE RStripHyphens(_)
RStripHyphens(t) ==
    IF t # <<>> /\ t[Len(t)] = "-" THEN RStripHyphens(SubSeq(t, 1, Len(t) - 1)) ELSE t

RECURSIVE LStripHyphens(_)
LStripHyphens(t) ==
    IF t # <<>> /\ t[1] = "-" THEN LStripHyphens(Tail(t)) ELSE t

\* variant of normalize_keyword that does not remove the special characters
normalize_keyword_KeepSpecial(keyword) ==
    LET hyphened == HyphenateRuns(Lower(keyword), 1)
        collapsed == CollapseHyphens(LStripHyphens(RStripHyphens(hyphened)), 1)
        limited == IF Len(collapsed) > 20
                   THEN RStripHyphens(Take(collapsed, 20))
                   ELSE collapsed
    IN IF limited = <<>> THEN word_agent ELSE limited

normalize_keyword(keyword) ==
    LET lowered == Lower(keyword)
        hyphened == HyphenateRuns(lowered, 1)
        cleaned == SelectSeq(hyphened, LAMBDA c : c \in LowerLetters \cup Digits \cup {"-"})
        stripped == LStripHyphens(RStripHyphens(cleaned))
        collapsed == CollapseHyphens(stripped, 1)
        limited == IF Len(collapsed) > 20
                   THEN RStripHyphens(Take(collapsed, 20))
                   ELSE collapsed
    IN IF limited = <<>> THEN word_agent ELSE limited

\* a clock reading, and strftime('%Y%m%d-%H%M%S') of it
DigitChar(n) == <<"0", "1", "2", "3", "4", "5", "6", "7", "8", "9">>[n + 1]

Pad2(n) == <<DigitChar(n \div 10), DigitChar(n % 10)>>

\* variant: the timestamp stops at the minute, '%Y%m%d-%H%M00'
strftime_ToTheMinute(c) ==
    Pad2(c.year \div 100) \o Pad2(c.year % 100) \o Pad2(c.month) \o Pad2(c.day) \o <<"-">>
    \o Pad2(c.hour) \o Pad2(c.minute) \o Pad2(0)

strftime(c) ==
    Pad2(c.year \div 100) \o Pad2(c.year % 100) \o Pad2(c.month) \o Pad2(c.day) \o <<"-">>
    \o Pad2(c.hour) \o Pad2(c.minute) \o Pad2(c.second)

\* datetime.now(): the UTC reading moved by the zone's offset in hours (the
\* readings used are not within a day of the month's ends)
LocalTime(c, offset) ==
    LET h == c.hour + offset IN
    IF h < 0 THEN [c EXCEPT !.hour = h + 24, !.day = c.day - 1]
    ELSE IF h > 23 THEN [c EXCEPT !.hour = h - 24, !.day = c.day + 1]
    ELSE [c EXCEPT !.hour = h]

JobName(keyword, timestamp) == <<"j", "o", "b", "-">> \o keyword \o <<"-">> \o timestamp

\* shared/utils/job_generator.py generate_job_name, called without a keyword
generate_job_name_shared(user_request, utc) ==
    JobName(normalize_keyword(extract_keyword_shared(user_request)), strftime(utc))

\* supervisor_agent.py generate_job_name
stop_words ==
    {
      <<"i">>, <<"w", "a", "n", "t">>, <<"n", "e", "e", "d">>, <<"w", "o", "u", "l", "d">>,
      <<"l", "i", "k", "e">>, <<"a">>, <<"a", "n">>, <<"t", "h", "e">>,
      <<"t", "o">>, <<"f", "o", "r">>, <<"c", "r", "e", "a", "t", "e">>, <<"b", "u", "i", "l", "d">>,
      <<"m", "a", "k", "e">> }

\* lines 301-308: the first word that is no stop word and longer than 2, or 'agent'
extract_keyword_supervisor(user_request) ==
    LET words == FindWordRuns(Lower(user_request))
    IN FirstWord(SelectSeq(words, LAMBDA w : w \notin stop_words /\ Len(w) > 2),
                 word_agent)

generate_job_name_supervisor(user_request, utc) ==
    JobName(extract_keyword_supervisor(user_request), strftime(utc))

\* handler.py extract_keyword and generate_job_name
keywords ==
    {
      <<"f", "r", "i", "e", "n", "d">>, <<"c", "u", "s", "t", "o", "m", "e", "r">>,
      <<"s", "u", "p", "p", "o", "r", "t">>, <<"c", "h", "a", "t">>,
      <<"a", "s", "s", "i", "s", "t", "a", "n", "t">>, <<"a", "g", "e", "n", "t">>,
      <<"s", "e", "r", "v", "i", "c", "e">>, <<"h", "e", "l", "p">> }

extract_keyword_handler(request) ==
    LET words == Split(Lower(request))
        listed == FirstWord(SelectSeq(words, LAMBDA w : w \in keywords), <<>>)
        alpha == FirstWord(SelectSeq(words, LAMBDA w : Len(w) > 3
                                                       /\ \A i \in 1..Len(w) : IsAlpha(w[i])),
                           <<>>)
    IN IF listed # <<>> THEN listed
       ELSE IF alpha # <<>> THEN Take(alpha, 10)
       ELSE word_agent

generate_job_name_handler(user_request, utc, offset) ==
    JobName(extract_keyword_handler(user_request), strftime(LocalTime(utc, offset)))

\* inputs
MaxWords == 2

Vocabulary ==
    {
      <<"I">>, <<"w", "o", "u", "l", "d">>,
      <<"a">>, <<"f", "r", "i", "e", "n", "d">>,
      <<"a", "g", "e", "n", "t">>, <<"m", "a", "k", "e">>,
      <<"c", "h", "a", "t", "b", "o", "t">>, <<"m", "y", "_", "b", "o", "t">>,
      <<"a", "i">>, <<"B", "o", "t">> }

RECURSIVE JoinWords(_)
JoinWords(ws) ==
    IF ws = <<>> THEN <<>>
    ELSE IF Len(ws) = 1 THEN ws[1]
    ELSE ws[1] \o <<" ">> \o JoinWords(Tail(ws))

ExampleRequest ==
    <<"I", " ", "w", "o", "u", "l", "d", " ", "l", "i", "k", "e", " ", "a", " ", "f", "r", "i", "e", "n", "d", " ", "a", "g", "e", "n", "t">>

Requests ==
    { JoinWords(ws) : ws \in UNION { [1..n -> Vocabulary] : n \in 0..MaxWords } }
    \cup { ExampleRequest }

Clocks ==
    { [year |-> 2025, month |-> 1, day |-> 15, hour |-> 14, minute |-> 30, second |-> 22],
      [year |-> 2025, month |-> 10, day |-> 13, hour |-> 2, minute |-> 3, second |-> 4] }

UtcOffsets == { 0, -5 }

JOB_NAME_FUNCTIONS == { "job_generator", "supervisor_agent", "handler" }

JobNameFrame ==
    /\ pc' = "done"
    /\ status' = "success"
    /\ UNCHANGED <<entry, env, step, attempt, planned, lastError, waits, stageLog,
                   apiCalls, inflight, results, final, table, hist>>
    /\ UNCHANGED throttleVars

\* the explicit keyword arguments tried; <<>> is None or '': no keyword given
Keywords ==
    { <<>>,
      <<"B", "o", "t", " ", "a", "i">>,
      <<"x", "_", "1", "!">>,
      <<"-", "-">>,
      <<"a", "-", "b">>,
      <<"2", "0", "2", "5", "0", "1", "1", "5", "-", "1", "4", "3", "0", "2", "2">>,
      [i \in 1..22 |-> IF i = 20 THEN " " ELSE IF i < 20 THEN "a" ELSE "b"] }

\* shared/utils/job_generator.py generate_job_name, lines 13-37, with its keyword argument
generate_job_name(user_request, keyword, utc) ==
    JobName(normalize_keyword(IF keyword = <<>>
                              THEN extract_keyword_shared(user_request)
                              ELSE keyword),
            strftime(utc))

\* are all characters of t in the class S
AllIn(t, S) == \A i \in 1..Len(t) : t[i] \in S

\* re.match(r'^job-([a-z0-9-]+)-(\d{8})-(\d{6})$', job_name), lines 131-132: the
\* three groups, or <<>> when there is no match.  The two digit groups have a
\* fixed length and the pattern is anchored at both ends, so the groups can
\* only lie in one place (job_name holds no line break).
JobNameMatch(job_name) ==
    LET n == Len(job_name) IN
    IF /\ n >= 21
       /\ SubSeq(job_name, 1, 4) = <<"j", "o", "b", "-">>
       /\ AllIn(SubSeq(job_name, 5, n - 16), LowerLetters \cup Digits \cup {"-"})
       /\ job_name[n - 15] = "-"
       /\ AllIn(SubSeq(job_name, n - 14, n - 7), Digits)
       /\ job_name[n - 6] = "-"
       /\ AllIn(SubSeq(job_name, n - 5, n), Digits)
    THEN << SubSeq(job_name, 5, n - 16), SubSeq(job_name, n - 14, n - 7),
            SubSeq(job_name, n - 5, n) >>
    ELSE <<>>

\* parse_job_name, lines 118-143: the dictionary returned, or the ValueError
parse_job_name(job_name) ==
    LET groups == JobNameMatch(job_name) IN
    IF groups = <<>>
    THEN [raised |-> "ValueError"]
    ELSE [keyword |-> groups[1], date |-> groups[2], time |-> groups[3],
          timestamp |-> groups[2] \o <<"-">> \o groups[3]]

\* is_valid_job_name, lines 146-157: the same pattern without the groups
is_valid_job_name(job_name) == JobNameMatch(job_name) # <<>>

GenerateShared ==
    /\ entry = "job_name"
    /\ pc = "start"
    /\ env.fn = "job_generator"
    /\ parts' = generate_job_name(env.request, env.keyword, env.utc)
    /\ JobNameFrame

\* is_valid_job_name and parse_job_name applied to the name generated
ParseJobName ==
    /\ entry = "job_name"
    /\ pc = "done"
    /\ results' = [valid |-> is_valid_job_name(parts), parsed |-> parse_job_name(parts)]
    /\ pc' = "parsed"
    /\ UNCHANGED <<entry, env, step, attempt, planned, lastError, waits, stageLog,
                   apiCalls, inflight, parts, status, final, table, hist>>
    /\ UNCHANGED throttleVars

GenerateSupervisor ==
    /\ entry = "job_name"
    /\ pc = "start"
    /\ env.fn = "supervisor_agent"
    /\ parts' = generate_job_name_supervisor(env.request, env.utc)
    /\ JobNameFrame

GenerateHandler ==
    /\ entry = "job_name"
    /\ pc = "start"
    /\ env.fn = "handler"
    /\ parts' = generate_job_name_handler(env.request, env.utc, env.offset)
    /\ JobNameFrame

InitJobName ==
    /\ entry = "job_name"
    /\ env \in { [fn |-> f, request |-> r, utc |-> c, offset |-> o, keyword |-> <<>>] :
                   f \in JOB_NAME_FUNCTIONS, r \in Requests, c \in Clocks, o \in UtcOffsets }
              \cup { [fn |-> "job_generator", request |-> r, utc |-> c, offset |-> 0,
                      keyword |-> k] :
                        r \in {<<>>, ExampleRequest}, c \in Clocks, k \in Keywords }
    /\ pc = "start"
    /\ step = 0
    /\ attempt = 0
    /\ planned = 0
    /\ lastError = NoError
    /\ waits = <<>>
    /\ stageLog = <<>>
    /\ apiCalls = <<>>
    /\ inflight = {}
    /\ parts = <<>>
    /\ results = EmptyMap
    /\ status = "running"
    /\ final = NoFinal
    /\ table = EmptyMap
    /\ hist = NoHist
    /\ InitThrottleIdle

NextJobName ==
    \/ GenerateShared
    \/ GenerateSupervisor
    \/ GenerateHandler
    \/ ParseJobName

SpecJobName == InitJobName /\ [][NextJobName]_vars

----------------------------------------------------------------------------
(* lambda/custom-orchestration/handler.py: the orchestration Lambda of one   *)
(* warm container, which handles one event at a time.                        *)
(* entry = "custom_orchestration"; table is last_converse_time, a dict kept  *)
(* as the sequence of its items in insertion order; env is the event being   *)
(* handled and results the event returned; parts holds, for each             *)
(* agent:session key, where its conversation stands and how many requested   *)
(* tools have not been executed; stageLog lists the apply_rate_limiting      *)
(* calls as [key, time of completion]; inflight holds the items the latest   *)
(* call deleted.                                                             *)

\* the f"{agent_id}:{session_id}" keys
Keys == 1..NumKeys

\* no 'toolUse' in the event
NoToolUse == [form |-> "absent", tools |-> <<>>]

\* the values of modelInvocationOutput.toolUse: absent, one tool, a list
ToolUses ==
    { NoToolUse, [form |-> "dict", tools |-> <<1>>] }
        \cup { [form |-> "list", tools |-> [i \in 1..n |-> i]] : n \in 0..MaxToolCalls }

Event(state, key, tool_use) == [orchestrationState |-> state, key |-> key, toolUse |-> tool_use]

\* key in last_converse_time
HasKey(t, key) == \E i \in 1..Len(t) : t[i].key = key

\* last_converse_time[key]
TimeOf(t, key) == t[CHOOSE i \in 1..Len(t) : t[i].key = key].time

\* last_converse_time[key] = value: a present key keeps its place
SetItem(t, key, value) ==
    IF HasKey(t, key)
    THEN [i \in 1..Len(t) |-> IF t[i].key = key THEN [key |-> key, time |-> value] ELSE t[i]]
    ELSE Append(t, [key |-> key, time |-> value])

\* sorted(..., key=...)[-n:] in place of [:n]: the newest n keys
OldestKeys_Newest(t, n) ==
    { t[i].key : i \in { i \in 1..Len(t) :
        Cardinality({ j \in 1..Len(t) :
            t[j].time > t[i].time \/ (t[j].time = t[i].time /\ j > i) }) < n } }

\* sorted(last_converse_time.keys(), key=lambda k: last_converse_time[k])[:n],
\* lines 272-273: the sort is stable, so equal times stay in insertion order
OldestKeys(t, n) ==
    { t[i].key : i \in { i \in 1..Len(t) :
        Cardinality({ j \in 1..Len(t) :
            t[j].time < t[i].time \/ (t[j].time = t[i].time /\ j < i) }) < n } }

\* lines 270-275: the clean-up of the table
CleanUp(t) ==
    IF Len(t) > TABLE_LIMIT
    THEN SelectSeq(t, LAMBDA e : e.key \notin OldestKeys(t, CLEANUP_COUNT))
    ELSE t

\* lines 238-263: the time at which time.sleep returns (the time of the call
\* when it does not sleep)
TimeAfterWait(t, key, current_time) ==
    IF HasKey(t, key) /\ current_time - TimeOf(t, key) < MIN_INTERVAL_SECONDS
    THEN current_time + (MIN_INTERVAL_SECONDS - (current_time - TimeOf(t, key)))
    ELSE current_time

\* apply_rate_limiting(agent_id, session_id), lines 228-275
apply_rate_limiting(key) ==
    /\ now' = TimeAfterWait(table, key, now)
    /\ table' = CleanUp(SetItem(table, key, now'))
    /\ inflight' = LET updated == SetItem(table, key, now') IN
                   { updated[i] : i \in { i \in 1..Len(updated) : ~HasKey(table', updated[i].key) } }
    /\ stageLog' = Append(stageLog, [key |-> key, time |-> now'])

\* the event is handled: the response is the event object itself
Returns(event, response) ==
    /\ env' = event
    /\ results' = response
    /\ step' = step + 1

\* lambda_handler with orchestrationState START, and handle_start
handle_start(key) ==
    /\ entry = "custom_orchestration"
    /\ step < MaxEvents
    /\ parts[key].phase \in {"none", "done"}
    /\ apply_rate_limiting(key)
    /\ Returns(Event("START", key, NoToolUse), Event("START", key, NoToolUse))
    /\ parts' = [parts EXCEPT ![key].phase = "model"]
    /\ UNCHANGED <<entry, pc, attempt, planned, lastError, waits, apiCalls, status,
                   final, hist, lim, lease>>

\* the toolUse of the event handle_model_invoked returns, lines 133-180
FirstToolOnly(tool_use) ==
    IF tool_use.form = "absent" \/ tool_use.tools = <<>> THEN tool_use
    ELSE IF Len(tool_use.tools) > 1 THEN [form |-> "dict", tools |-> <<tool_use.tools[1]>>]
    ELSE tool_use

\* lambda_handler with orchestrationState MODEL_INVOKED, and
\* handle_model_invoked: the model's answer asks for the tools of tool_use;
\* the tools of the returned event are the ones that get executed
handle_model_invoked(key, tool_use) ==
    /\ entry = "custom_orchestration"
    /\ step < MaxEvents
    /\ parts[key].phase = "model"
    /\ Returns(Event("MODEL_INVOKED", key, tool_use),
               Event("MODEL_INVOKED", key, FirstToolOnly(tool_use)))
    /\ parts' = [parts EXCEPT ![key] =
                    [phase |-> IF FirstToolOnly(tool_use).tools = <<>> THEN "done" ELSE "tool",
                     pending |-> @.pending + Len(tool_use.tools)]]
    /\ UNCHANGED <<entry, pc, attempt, planned, lastError, waits, stageLog, apiCalls,
                   inflight, status, final, table, hist, now, lim, lease>>

\* lambda_handler with orchestrationState TOOL_INVOKED, and
\* handle_tool_invoked: the tool of the returned event has been executed
handle_tool_invoked(key) ==
    /\ entry = "custom_orchestration"
    /\ step < MaxEvents
    /\ parts[key].phase = "tool"
    /\ apply_rate_limiting(key)
    /\ Returns(Event("TOOL_INVOKED", key, NoToolUse), Event("TOOL_INVOKED", key, NoToolUse))
    /\ parts' = [parts EXCEPT ![key] = [phase |-> "model", pending |-> @.pending - 1]]
    /\ UNCHANGED <<entry, pc, attempt, planned, lastError, waits, apiCalls, status,
                   final, hist, lim, lease>>

\* lambda_handler lines 59-62: any other orchestrationState, the event is
\* returned as it is
lambda_handler_unknown_state(key) ==
    /\ entry = "custom_orchestration"
    /\ step < MaxEvents
    /\ Returns(Event("UNKNOWN", key, NoToolUse), Event("UNKNOWN", key, NoToolUse))
    /\ UNCHANGED <<entry, pc, attempt, planned, lastError, waits, stageLog, apiCalls,
                   inflight, parts, status, final, table, hist, now, lim, lease>>

\* line 20: the module is loaded, last_converse_time = {}
InitOrchestration ==
    /\ entry = "custom_orchestration"
    /\ env = Event("none", 0, NoToolUse)
    /\ pc = "warm"
    /\ step = 0
    /\ attempt = 0
    /\ planned = 0
    /\ lastError = NoError
    /\ waits = <<>>
    /\ stageLog = <<>>
    /\ apiCalls = <<>>
    /\ inflight = {}
    /\ parts = [k \in Keys |-> [phase |-> "none", pending |-> 0]]
    /\ results = Event("none", 0, NoToolUse)
    /\ status = "running"
    /\ final = NoFinal
    /\ table = <<>>
    /\ hist = NoHist
    /\ now = StartOfTime
    /\ lim = EmptyMap
    /\ lease = {}

NextOrchestration ==
    \/ \E key \in Keys : handle_start(key)
    \/ \E key \in Keys, tool_use \in ToolUses : handle_model_invoked(key, tool_use)
    \/ \E key \in Keys : handle_tool_invoked(key)
    \/ \E key \in Keys : lambda_handler_unknown_state(key)
    \/ Tick

SpecOrchestration == InitOrchestration /\ [][NextOrchestration]_vars

----------------------------------------------------------------------------
(* Observations shared by the properties *)

IsPrefix(a, b) ==
    /\ Len(a) <= Len(b)
    /\ \A i \in 1..Len(a) : a[i] = b[i]

\* the pipeline stage a collaborator serves
StageOf(agent) ==
    IF agent \in {"requirements_analyst", "requirements-analyst"} THEN "REQUIREMENTS"
    ELSE IF agent \in {"solution_architect", "solution-architect"} THEN "ARCHITECTURE"
    ELSE IF agent \in {"code_generator", "code-generator"} THEN "CODE"
    ELSE IF agent \in {"quality_validator", "quality-validator"} THEN "VALIDATION"
    ELSE "DEPLOYMENT"

\* a sequence without its immediate repetitions
RECURSIVE Collapse(_)
Collapse(q) ==
    IF Len(q) <= 1 THEN q
    ELSE IF q[1] = q[2] THEN Collapse(Tail(q))
    ELSE <<q[1]>> \o Collapse(Tail(q))

\* the stages in the order in which their collaborators were called: by
\* invoke_collaborator for invoke, by invoke_agent_lambda for handle_orchestrate
StagesEntered ==
    IF entry = "agentcore"
    THEN [i \in 1..Len(stageLog) |-> StageOf(stageLog[i])]
    ELSE Collapse([i \in 1..Len(apiCalls) |-> StageOf(apiCalls[i])])

IsOrchestrator == entry \in {"agentcore", "lambda"}

DeploymentInvoked == \E i \in 1..Len(StagesEntered) : StagesEntered[i] = "DEPLOYMENT"

ValidationKey == IF entry = "agentcore" THEN "quality_validator" ELSE "validation"

\* the VALIDATION stage has returned its result
ValidationDone == ValidationKey \in DOMAIN results

\* ... and its is_valid was true
ValidationIsTrue == ValidationDone /\ results[ValidationKey].is_valid = "true"

----------------------------------------------------------------------------
----------------------------------------------------------------------------
(* C2 as stated: the stages are invoked one at a time in the order           *)
(* REQUIREMENTS, ARCHITECTURE, CODE, VALIDATION, DEPLOYMENT.                 *)
C2_SpecOrder ==
    IsOrchestrator =>
        /\ Cardinality(inflight) <= 1
        /\ IsPrefix(StagesEntered,
                    <<"REQUIREMENTS", "ARCHITECTURE", "CODE", "VALIDATION", "DEPLOYMENT">>)

\* the order each orchestrator follows
OrderOf(e) ==
    IF e = "agentcore"
    THEN <<"REQUIREMENTS", "CODE", "ARCHITECTURE", "VALIDATION", "DEPLOYMENT">>
    ELSE <<"REQUIREMENTS", "ARCHITECTURE", "CODE", "VALIDATION", "DEPLOYMENT">>

(* C2 as amended: the stages are invoked one at a time and in a fixed order, *)
(* which is REQUIREMENTS, CODE, ARCHITECTURE, VALIDATION, DEPLOYMENT in      *)
(* supervisor_agent.invoke and REQUIREMENTS, ARCHITECTURE, CODE, VALIDATION, *)
(* DEPLOYMENT in handle_orchestrate; a collaborator is called only while no  *)
(* other call is outstanding, and no stage is skipped or reordered.          *)
C2_FixedOrder ==
    /\ [](IsOrchestrator =>
            /\ Cardinality(inflight) <= 1
            /\ IsPrefix(StagesEntered, OrderOf(entry)))
    /\ [][IsOrchestrator /\ (stageLog' # stageLog \/ apiCalls' # apiCalls) => inflight = {}]_vars

\* supervisor_agent.invoke has called the architect after the code generator
C2_Witness ==
    /\ entry = "agentcore"
    /\ ~env.MOCK_MODE
    /\ Len(apiCalls) >= 3
    /\ StagesEntered = <<"REQUIREMENTS", "CODE", "ARCHITECTURE", "VALIDATION">>
    /\ inflight = {"quality_validator"}

----------------------------------------------------------------------------
(* C3: the timestamps of the lease writes that succeeded differ pairwise by  *)
(* at least the configured interval, whatever the interleaving of the        *)
(* executions' read, wait and write steps.                                   *)
C3_LeaseSpacing ==
    entry = "throttle" =>
        \A r1 \in lease : \A r2 \in lease :
            r1 # r2 => \/ r1.time - r2.time >= Delay
                       \/ r2.time - r1.time >= Delay

----------------------------------------------------------------------------
(* C4: a call during which the store was unreachable, for the read or for    *)
(* the write, returned only after at least the full delay had passed.        *)
C4_OutageFullDelay ==
    entry = "throttle" =>
        \A c \in Callers :
            (lim[c].last.readFailed \/ lim[c].last.writeFailed) => lim[c].last.fullDelay

----------------------------------------------------------------------------
Min(a, b) == IF a <= b THEN a ELSE b

(* C5: for a collaborator that fails n times in a row, invoke_collaborator   *)
(* uses up exactly min(max_retries, n) attempts on failures; with            *)
(* n < max_retries it returns the result of the next attempt (n + 1 calls    *)
(* sent); with n >= max_retries it raises after max_retries calls, sends no  *)
(* further call, and the error it raises carries the last failure.           *)
C5_RetryCount ==
    entry = "agentcore" =>
        /\ hist.sent <= max_retries
        /\ hist.fails <= max_retries
        /\ \A i \in 1..Len(hist.ended) :
              LET e == hist.ended[i] IN
              /\ e.fails = Min(max_retries, e.n)
              /\ e.n < max_retries => e.outcome = "returned" /\ e.sent = e.n + 1
              /\ e.n >= max_retries => e.outcome = "raised" /\ e.sent = max_retries
        /\ final.error.type = "retries_exhausted" =>
              /\ pc = "done"
              /\ status = "error"
              /\ lastError.type = "invoke_failed"
              /\ final.error.cause = lastError.cause
              /\ final.error.attempt = lastError.attempt
              /\ lastError.attempt = max_retries - 1
              /\ Len(waits) = max_retries - 1

\* a collaborator throttled max_retries times or more made the call raise
C5_Witness ==
    /\ entry = "agentcore"
    /\ pc = "done"
    /\ final.error.type = "retries_exhausted"
    /\ final.error.cause = "throttling"
    /\ hist.ended # <<>>
    /\ hist.ended[Len(hist.ended)].n > max_retries
    /\ hist.ended[Len(hist.ended)].outcome = "raised"
    /\ \E i \in 1..Len(hist.ended) :
          hist.ended[i].n = max_retries - 1 /\ hist.ended[i].outcome = "returned"

----------------------------------------------------------------------------
\* no element occurs twice in the sequence
NoRepeat(q) == \A i \in 1..Len(q) : \A j \in 1..Len(q) : q[i] = q[j] => i = j

(* C6 as stated: a failure that is not a throttling failure makes the call   *)
(* fail at once, with no backoff sleep and no further attempt.               *)
C6_NonThrottlingFailsAtOnce ==
    (entry = "agentcore" /\ lastError.cause = "other") =>
        /\ status = "error"
        /\ pc = "done"
        /\ waits = <<>>

(* C6 as amended: invoke_collaborator treats every failure of the call       *)
(* alike, throttling or not: before the last attempt it sleeps 2^attempt     *)
(* seconds and tries again, on the last attempt it raises.                   *)
(* invoke_agent_lambda never retries: each action is called at most once,    *)
(* there is no backoff, and any failure, throttling included, ends the run.  *)
C6_AllFailuresAlike ==
    /\ entry = "agentcore" =>
          /\ (lastError.type = "invoke_failed" /\ lastError.attempt < max_retries - 1) =>
                /\ status # "error"
                /\ Len(waits) > lastError.attempt
                /\ waits[lastError.attempt + 1] = Pow2(lastError.attempt)
                /\ attempt = lastError.attempt => pc = "backoff"
          /\ (lastError.type = "invoke_failed" /\ lastError.attempt = max_retries - 1) =>
                /\ status = "error"
                /\ final.error = Err("retries_exhausted", lastError.cause, lastError.attempt)
    /\ entry = "lambda" =>
          /\ NoRepeat(stageLog)
          /\ waits = <<>>
          /\ hist.raised # <<>> => status = "error" /\ pc = "done"

\* a failure that is not a throttling failure is followed by a backoff sleep
C6_Witness ==
    /\ entry = "agentcore"
    /\ lastError = Err("invoke_failed", "other", 0)
    /\ pc = "backoff"
    /\ waits = <<1>>

----------------------------------------------------------------------------
----------------------------------------------------------------------------
(* C8 as stated: the final result carries the terminal state and every stage *)
(* output that was produced before the run ended.                            *)
C8_AlwaysCarriesOutputs ==
    (IsOrchestrator /\ pc = "done") =>
        /\ final.status = status
        /\ hist.produced \subseteq DOMAIN final.results

(* C8 as amended: the final result carries the terminal state; it carries    *)
(* every stage output produced when the run ends deployed or                 *)
(* validation_failed, and no stage output at all when it ends in error.      *)
C8_FinalResult ==
    (IsOrchestrator /\ pc = "done") =>
        /\ final.status = status
        /\ status \in {"deployed", "validation_failed", "error"}
        /\ status \in {"deployed", "validation_failed"} =>
              /\ final.hasResults
              /\ final.results = results
              /\ DOMAIN final.results = hist.produced
              /\ final.error = NoError
        /\ status = "error" =>
              /\ ~final.hasResults
              /\ final.results = EmptyMap
              /\ final.error # NoError

\* handle_orchestrate ended in error after stages had produced their outputs
C8_Witness ==
    /\ entry = "lambda"
    /\ pc = "done"
    /\ status = "error"
    /\ final.http = 500
    /\ ~final.hasResults
    /\ {"requirements", "architecture"} \subseteq hist.produced

----------------------------------------------------------------------------
\* the keys under which the first four stages' outputs are returned
FourOutputs ==
    IF entry = "agentcore"
    THEN {"requirements_analyst", "code_generator", "solution_architect", "quality_validator"}
    ELSE {"requirements", "architecture", "code", "validation"}

\* the key of the deployment stage's output
DeploymentKey == IF entry = "agentcore" THEN "deployment_manager" ELSE "deployment"

(* C9: a result with state validation_failed records exactly the four        *)
(* outputs of requirements, architecture, code and validation, and a result  *)
(* with state deployed exactly five, one per collaborator; a run whose       *)
(* validation returned is_valid = false ends validation_failed, and one      *)
(* whose validation returned true and whose deployment returned ends         *)
(* deployed (in handle_orchestrate: when recording the result did not raise).*)
C9_StageOutputs ==
    IsOrchestrator =>
        /\ final.status = "validation_failed" =>
              /\ final.hasResults
              /\ DOMAIN final.results = FourOutputs
              /\ Cardinality(DOMAIN final.results) = 4
              /\ final.results[ValidationKey].is_valid # "true"
              /\ ~DeploymentInvoked
        /\ final.status = "deployed" =>
              /\ final.hasResults
              /\ DOMAIN final.results = FourOutputs \cup {DeploymentKey}
              /\ Cardinality(DOMAIN final.results) = 5
              /\ final.results[ValidationKey].is_valid = "true"
        /\ (pc = "done" /\ ValidationDone /\ results[ValidationKey].is_valid = "false"
               /\ hist.raised = <<>>) =>
              final.status = "validation_failed"
        /\ (pc = "done" /\ DeploymentKey \in DOMAIN results /\ hist.raised = <<>>) =>
              final.status = "deployed"

\* supervisor_agent.invoke returned validation_failed for is_valid = false
C9_Witness ==
    /\ entry = "agentcore"
    /\ ~env.MOCK_MODE
    /\ pc = "done"
    /\ final.status = "validation_failed"
    /\ final.results["quality_validator"].is_valid = "false"
    /\ Cardinality(DOMAIN final.results) = 4

----------------------------------------------------------------------------
(* C10: whenever a stage's collaborator has been called, the input record of *)
(* that stage attempt is in the inference table: the stage functions'        *)
(* record under their agent name, handle_orchestrate's under "supervisor".   *)
C10_InputRecordBeforeInvoke ==
    /\ entry = "collaborator" =>
          \A i \in 1..Len(apiCalls) : apiCalls[i] \in DOMAIN table
    /\ (entry = "lambda" /\ apiCalls # <<>>) => "supervisor" \in DOMAIN table

----------------------------------------------------------------------------
\* the errors raised by the calls that record an output
PersistenceErrors == {"log_output_failed", "save_failed"}

\* the errors a stage function raises for the collaborator's call or answer
StageErrors == {"invoke_failed", "missing_section"}

(* C11: once the collaborator's call of a stage has returned, the stage's    *)
(* output record is in the inference table when the stage goes on to save    *)
(* and return its result, and a stage that ended with an error of the call   *)
(* or of its answer has left an error record.                                *)
C11_OutputRecordAfterReturn ==
    entry = "collaborator" =>
        LET a == AgentNameOf(env.fn) IN
        /\ (pc \in {"c_save", "done"} /\ a \in DOMAIN results /\ final.error.type # "log_output_failed") =>
              /\ a \in DOMAIN table
              /\ table[a] = "success"
        /\ (pc = "done" /\ final.error.type \in StageErrors) =>
              /\ a \in DOMAIN table
              /\ table[a] = "error"

----------------------------------------------------------------------------
(* C12 as stated: recording an output never is what makes a stage or a run   *)
(* end in error.                                                             *)
C12_PersistenceFailureOnlyWarned ==
    entry \in {"lambda", "collaborator"} => final.error.type \notin PersistenceErrors

(* C12 as amended: a failure of log_inference_output or of                   *)
(* save_converted_artifact raises.  In a stage function the exception        *)
(* propagates and the collaborator's result is not returned; in              *)
(* handle_orchestrate the run, whatever its outcome was, is answered with    *)
(* the 500 error body without results.  A stage function that logs returns   *)
(* success only with its output record stored, and handle_orchestrate        *)
(* answers 200 only with the run's output record stored.                     *)
C12_PersistenceFailureAborts ==
    /\ entry = "collaborator" =>
          /\ final.error.type \in PersistenceErrors =>
                /\ pc = "done"
                /\ status = "error"
                /\ ~final.hasResults
                /\ AgentNameOf(env.fn) \in DOMAIN results
          /\ (pc = "done" /\ status = "success" /\ LogsInference(env.fn)) =>
                /\ AgentNameOf(env.fn) \in DOMAIN table
                /\ table[AgentNameOf(env.fn)] = "success"
    /\ entry = "lambda" =>
          /\ final.error.type \in PersistenceErrors =>
                /\ pc = "done"
                /\ status = "error"
                /\ final.http = 500
                /\ ~final.hasResults
                /\ "validation" \in DOMAIN results
          /\ (pc = "done" /\ final.http = 200) =>
                /\ final.hasResults
                /\ table["supervisor"] = "success"

\* a run whose five stages all returned is answered with the error body
\* because log_inference_output raised
C12_Witness ==
    /\ entry = "lambda"
    /\ pc = "done"
    /\ final.error.type = "log_output_failed"
    /\ final.http = 500
    /\ Len(apiCalls) = Len(ORCHESTRATION)
    /\ "deployment" \in DOMAIN results

\* C13 (as stated): every extraction either returns the decoded payload or
\* fails with a parse error; the raw text wrapped in a placeholder object is
\* never returned.
C13_ParsedOrParseError ==
    (entry = "extract" /\ pc = "done") =>
        \/ status = "error"
        \/ /\ status = "success"
           /\ results.ok
           /\ final.results = results.val
           /\ final.results # Placeholder(env.text)

\* C13 (amended): the stage functions and the supervisor parser return the
\* decoded value of the JSON text they extracted or raise the decoder's error,
\* and raise whenever the response holds no JSON; parse_streaming_response
\* never raises: it returns the decoded value when the whole text is JSON and
\* otherwise the text wrapped as {"result": text}.
C13_ExtractorOutcome ==
    (entry = "extract" /\ pc = "done") =>
        /\ env.fn # "parse_streaming_response" =>
              /\ \/ status = "error" /\ ~results.ok /\ ~final.hasResults
                 \/ /\ status = "success"
                    /\ results.ok
                    /\ final.results = results.val
                    /\ final.results # Placeholder(env.text)
              /\ env.form = "prose" => status = "error"
              /\ env.fn \in STAGE_FUNCTIONS => results = JsonLoads(parts)
        /\ env.fn = "parse_streaming_response" =>
              /\ status = "success"
              /\ final.results = IF JsonLoads(env.text).ok
                                 THEN JsonLoads(env.text).val
                                 ELSE Placeholder(env.text)
              /\ env.form = "bare" => JEq(final.results, PayloadValue(env.payload))
              /\ env.form \in {"fenced", "prose"} =>
                    final.results = Placeholder(env.text)

\* parse_streaming_response has returned a prose response as a placeholder
C13_Witness ==
    /\ entry = "extract"
    /\ pc = "done"
    /\ env.fn = "parse_streaming_response"
    /\ env.form = "prose"
    /\ status = "success"
    /\ final.results = Placeholder(env.text)

\* the extractors that look for fenced blocks
FenceExtractors == STAGE_FUNCTIONS \cup {"extract_json_from_supervisor_response"}

\* C14: round trip: a payload serialised and wrapped in a labelled fenced
\* block, with or without commentary around it, is extracted and decoded to
\* a value equal to the payload.
C14_RoundTrip ==
    (/\ entry = "extract"
     /\ pc = "done"
     /\ env.fn \in FenceExtractors
     /\ env.form \in {"fenced", "fenced_commentary"}) =>
        /\ status = "success"
        /\ JEq(final.results, PayloadValue(env.payload))

\* C15: repair: a response that is the serialised object with its leading
\* brace missing, or with its closing brace missing, gets the brace added
\* before parsing and decodes to the object.
C15_Repair ==
    (/\ entry = "extract"
     /\ pc = "done"
     /\ env.fn \in STAGE_FUNCTIONS
     /\ env.form \in {"no_open_brace", "no_close_brace"}) =>
        /\ StartsWith(parts, "{")
        /\ EndsWith(parts, "}")
        /\ status = "success"
        /\ JEq(final.results, PayloadValue(env.payload))

\* the keyword as the specification derives it: the first word of the request
\* that is not a stop word (of the function's own stop-word set; handler.py
\* has none, the supervisor agent's is taken) and has at least three
\* characters, lowercased and stripped to [a-z0-9-], or "agent"
SpecStopWords(fn) == IF fn = "job_generator" THEN skip_words ELSE stop_words

SpecKeyword(fn, request) ==
    LET words == FindWordRuns(Lower(request))
        found == FirstWord(SelectSeq(words, LAMBDA w : w \notin SpecStopWords(fn)
                                                       /\ Len(w) >= 3),
                           <<>>)
    IN IF found = <<>> THEN word_agent
       ELSE SelectSeq(found, LAMBDA c : c \in LowerLetters \cup Digits \cup {"-"})

\* C16: the job identifier is job-{keyword}-{YYYYMMDD-HHMMSS} with the
\* keyword the first non-stop word of at least three characters, lowercased
\* and stripped to [a-z0-9-], or "agent" when there is none, and the
\* timestamp the current UTC time.
C16_JobIdentifier ==
    (entry = "job_name" /\ pc = "done" /\ env.keyword = <<>>) =>
        parts = JobName(SpecKeyword(env.fn, env.request), strftime(env.utc))

\* the outputs a stage input refers to
Origins(inp) == { inp.fields[k].origin : k \in DOMAIN inp.fields }

\* the outputs the current run holds: per collaborator for invoke, per call
\* for handle_orchestrate
Held == IF entry = "agentcore" THEN results ELSE parts

\* the entry that receives the DEPLOYMENT stage's input
DeploymentEntry ==
    IF entry = "agentcore" THEN "deployment_manager" ELSE "/generate-cloudformation"

\* the inputs recorded so far
InputIndexes == 1..Len(hist.inputs)

\* every field of input i holds the whole output of an entry invoked earlier
\* in the run, as the run still holds it
HoldsEarlierOutputs(i) ==
    LET inp == hist.inputs[i] IN
    \A k \in DOMAIN inp.fields :
        /\ \E j \in 1..(i - 1) : hist.inputs[j].to = inp.fields[k].origin
        /\ inp.fields[k].origin \in DOMAIN Held
        /\ inp.fields[k].value = Held[inp.fields[k].origin]

\* the outputs of the stages before DEPLOYMENT
PriorOutputs ==
    IF entry = "agentcore"
    THEN {"requirements_analyst", "code_generator", "solution_architect", "quality_validator"}
    ELSE { ORCHESTRATION[i].path : i \in { j \in 1..Len(ORCHESTRATION) :
                                             ORCHESTRATION[j].stage # "deployment" } }

\* C17 (as stated): the DEPLOYMENT input holds all prior stage outputs, the
\* complete CODE and ARCHITECTURE outputs among them, plus the marker
\* "validation passed", and only inputs built after a passing gate carry the
\* marker.
C17_AllPriorOutputs ==
    IsOrchestrator =>
        \A i \in InputIndexes :
            LET inp == hist.inputs[i] IN
            /\ inp.to = DeploymentEntry =>
                  /\ inp.validation_status = "passed"
                  /\ Origins(inp) = PriorOutputs
                  /\ HoldsEarlierOutputs(i)
            /\ inp.validation_status = "passed" => ValidationIsTrue

\* C17 (amended): the DEPLOYMENT input holds the REQUIREMENTS, CODE and
\* ARCHITECTURE outputs (in handle_orchestrate the results of
\* /extract-requirements, /generate-lambda-code and /design-architecture
\* only) and the marker, not the VALIDATION output; the marker is carried by
\* the DEPLOYMENT input alone, which is built only after a passing gate.
C17_DeploymentInput ==
    IsOrchestrator =>
        \A i \in InputIndexes :
            LET inp == hist.inputs[i] IN
            /\ inp.validation_status = "passed" <=> inp.to = DeploymentEntry
            /\ inp.to = DeploymentEntry =>
                  /\ ValidationIsTrue
                  /\ DOMAIN inp.fields = {"requirements", "code", "architecture"}
                  /\ HoldsEarlierOutputs(i)
                  /\ inp.fields["requirements"].origin =
                        (IF entry = "agentcore" THEN "requirements_analyst"
                         ELSE "/extract-requirements")
                  /\ inp.fields["code"].origin =
                        (IF entry = "agentcore" THEN "code_generator"
                         ELSE "/generate-lambda-code")
                  /\ inp.fields["architecture"].origin =
                        (IF entry = "agentcore" THEN "solution_architect"
                         ELSE "/design-architecture")

\* a deployed run of handle_orchestrate whose /generate-cloudformation call
\* was given the marker
C17_Witness ==
    /\ entry = "lambda"
    /\ pc = "done"
    /\ final.status = "deployed"
    /\ \E i \in InputIndexes :
          /\ hist.inputs[i].to = "/generate-cloudformation"
          /\ hist.inputs[i].validation_status = "passed"
          /\ Origins(hist.inputs[i]) =
                {"/extract-requirements", "/generate-lambda-code", "/design-architecture"}

\* the stage an output belongs to
StageOfOutput(origin) ==
    IF entry = "agentcore" THEN StageOf(origin)
    ELSE StageOf((CHOOSE c \in { ORCHESTRATION[i] : i \in 1..Len(ORCHESTRATION) } :
                    c.path = origin).agent)

\* the stages whose outputs the inputs of `stage` recorded so far refer to,
\* the stage itself aside
StagesUsedBy(stage) ==
    { StageOfOutput(o) :
        o \in UNION { Origins(hist.inputs[i]) :
                        i \in { j \in InputIndexes :
                                  StageOfOutput(hist.inputs[j].to) = stage } } }
    \ {stage}

\* all the entries of a stage have been given their input
StageFullyInvoked(stage) ==
    IF entry = "agentcore"
    THEN \E i \in InputIndexes : StageOfOutput(hist.inputs[i].to) = stage
    ELSE \A k \in 1..Len(ORCHESTRATION) :
            StageOf(ORCHESTRATION[k].agent) = stage =>
               \E i \in InputIndexes : hist.inputs[i].to = ORCHESTRATION[k].path

C19_InvokeAlwaysReturns ==
    entry = "agentcore" =>
        /\ pc # "done" => ENABLED Next
        /\ pc # "done" => final = NoFinal /\ status = "running"
        /\ pc = "done" =>
              /\ final.status \in {"deployed", "validation_failed", "error"}
              /\ status = final.status
              /\ final.status = "error" <=> final.error # NoError
              /\ hist.raised # <<>> => final.status = "error"
        /\ env.prompt = "" =>
              /\ hist.job_name = "none"
              /\ stageLog = <<>>
              /\ apiCalls = <<>>
              /\ hist.inputs = <<>>
              /\ pc = "done" =>
                    final = Final("error", FALSE, EmptyMap, Err("no_prompt", "none", 0), 0)
        /\ (env.prompt # "" /\ pc # "start") => hist.job_name = "generated"

\* invoke has answered an empty prompt with the error result
C19_Witness ==
    /\ entry = "agentcore"
    /\ env.prompt = ""
    /\ pc = "done"
    /\ final.status = "error"
    /\ final.error.type = "no_prompt"
    /\ hist.job_name = "none"

\* C20: an agent Lambda's lambda_handler never propagates an exception: it
\* ends with a response of messageVersion 1.0 that carries httpStatusCode 200
\* and the result, or httpStatusCode 500 and the body {error, status: error}
\* after any failure, an unknown apiPath and a missing required parameter
\* included; the supervisor's lambda_handler likewise answers 200 or 500.
C20_HandlerAlwaysResponds ==
    /\ entry = "agent_lambda" =>
          /\ pc # "done" => ENABLED Next
          /\ pc # "done" => hist.raised = <<>>
          /\ pc = "done" =>
                /\ status \in {"success", "error"}
                /\ final.status = status
                /\ final.messageVersion = "1.0"
                /\ final.http = IF hist.raised = <<>> THEN 200 ELSE 500
                /\ final.http = 200 =>
                      /\ final.status = "success"
                      /\ final.error = NoError
                      /\ final.hasResults
                      /\ env.apiPath \in DOMAIN final.results
                /\ final.http = 500 =>
                      /\ final.status = "error"
                      /\ final.error # NoError
                      /\ ~final.hasResults
                /\ env.apiPath \notin AGENT_API_PATHS =>
                      final.http = 500 /\ final.error.type = "unknown_api_path"
                /\ (env.apiPath \in AGENT_API_PATHS /\ env.job_name = "") =>
                      final.http = 500 /\ final.error.type = "missing_parameter"
    /\ entry = "lambda" =>
          /\ pc # "done" => ENABLED Next
          /\ pc = "done" =>
                /\ final.http \in {200, 500}
                /\ final.http = 500 <=> final.status = "error"
                /\ final.http = 500 => final.error # NoError
                /\ env.apiPath # "/orchestrate" =>
                      final.http = 500 /\ final.error.type = "unknown_api_path"
                /\ (env.apiPath = "/orchestrate" /\ env.prompt = "") =>
                      final.http = 500 /\ final.error.type = "missing_user_request"

\* the quality validator's lambda_handler has answered a failure to save the
\* result, which its action handler re-raised, with the 500 response
C20_Witness ==
    /\ entry = "agent_lambda"
    /\ pc = "done"
    /\ env.apiPath = "/validate-code"
    /\ final.http = 500
    /\ final.error.type = "save_failed"
    /\ final.messageVersion = "1.0"

----------------------------------------------------------------------------
\* C21: the defaults in force are a minimum invocation interval of 30 seconds
\* and 5 attempts: with no custom delay, a call whose read of the store failed
\* sleeps 30 seconds from the failure, a call that read a lease sleeps until
\* at least 30 seconds after that lease, and the invoker's retry bound is 5.
C21_SpecDefaults ==
    \A c \in Callers :
        (~env.supplied /\ lim[c].pc = "sleep") =>
            /\ max_retries = 5
            /\ lim[c].readFailed => lim[c].wakeAt = lim[c].failedAt + 30
            /\ ~lim[c].readFailed =>
                   \E r \in lease : lim[c].wakeAt >= r.time + 30

----------------------------------------------------------------------------
\* C22: a run of the orchestrator for the request of an earlier run restarts
\* from REQUIREMENTS: it starts with no results, no partial results, no
\* terminal status and no final result, every output it holds was returned by
\* a stage of this run, and its stages are entered from REQUIREMENTS on in the
\* orchestrator's order, whatever the earlier run left behind.
C22_RerunRestarts ==
    (entry \in {"agentcore", "lambda"} /\ hist.earlier # <<>>) =>
        /\ pc = "start" =>
              /\ results = EmptyMap
              /\ parts = EmptyMap
              /\ status = "running"
              /\ final = NoFinal
        /\ DOMAIN results \subseteq hist.produced
        /\ IsPrefix(StagesEntered, OrderOf(entry))

\* a run that deployed is run again and the second run invokes all five
\* collaborators, the last one included
C22_Witness ==
    /\ entry \in {"agentcore", "lambda"}
    /\ hist.earlier # <<>>
    /\ hist.earlier[1].status = "deployed"
    /\ Len(StagesEntered) = 5
    /\ DeploymentInvoked
    /\ status = "deployed"

----------------------------------------------------------------------------
\* the apply_rate_limiting calls an execution made for its collaborator calls:
\* lambda_handler makes one more, for the request itself (handler.py line 82)
ChecksForCalls ==
    IF entry = "lambda" /\ hist.limited > 0 THEN hist.limited - 1 ELSE hist.limited

\* C23: every collaborator call attempt, each retry included, is preceded by
\* an apply_rate_limiting of its own by the same execution: an execution has
\* never sent more collaborator calls than it has made checks for them.
C23_CheckBeforeEveryAttempt ==
    entry \in {"agentcore", "lambda", "collaborator"} =>
        Len(apiCalls) <= ChecksForCalls

----------------------------------------------------------------------------
\* the base backoff delay in seconds: the factor of 2 ** attempt
baseDelay == 1

\* C24: within one invoke_collaborator call the sleep after the k-th failure
\* (k from 1) is at least baseDelay * 2^(k-1) seconds, so at least baseDelay
\* after the first failure and at least twice the sleep before it afterwards;
\* every failure but the final one is followed by one sleep, and the failure
\* of the final attempt by none.
C24_Backoff ==
    (entry = "agentcore" /\ pc \in {"attempt", "await", "backoff", "done"}) =>
        /\ \A k \in 1..Len(waits) : waits[k] >= baseDelay * Pow2(k - 1)
        /\ \A k \in 2..Len(waits) : waits[k] >= 2 * waits[k - 1]
        /\ pc \in {"attempt", "await", "backoff"} => Len(waits) = hist.fails
        /\ (pc = "done" /\ final.error.type = "retries_exhausted") =>
              /\ hist.fails = max_retries
              /\ Len(waits) = max_retries - 1

\* a call whose attempts all failed by throttling: it slept after each failure
\* but the last
C24_Witness ==
    /\ entry = "agentcore"
    /\ pc = "done"
    /\ final.error.type = "retries_exhausted"
    /\ final.error.cause = "throttling"
    /\ Len(waits) = max_retries - 1
    /\ Len(waits) >= 2

----------------------------------------------------------------------------
\* the three recovery attempts for a response text, in order: the labelled
\* fenced block, any fenced block whose trimmed content starts with a brace,
\* the whole trimmed response with its braces repaired
RecoveryAttempts(text) ==
    LET labelled == LooseBlock(text, TRUE)
        any == LooseBlock(text, FALSE)
    IN << IF labelled.found THEN Found(Stripped(labelled)) ELSE NotFound,
          IF any.found /\ LooksLikeJson(Stripped(any)) THEN Found(Stripped(any)) ELSE NotFound,
          Found(RepairBraces(text)) >>

\* the attempts that yield a valid parse
ParsingAttempts(text) ==
    { i \in 1..3 : RecoveryAttempts(text)[i].found
                   /\ JsonLoads(RecoveryAttempts(text)[i].group).ok }

\* C25: the first recovery attempt that yields a valid parse wins: analyze
\* returns the value of the earliest attempt that parses, going on to the next
\* attempt when an earlier one does not parse, and fails only when none does.
C25_FirstSuccessWins ==
    (entry = "extract" /\ pc = "done" /\ env.fn = "analyze") =>
        IF ParsingAttempts(env.text) = {}
        THEN status = "error"
        ELSE /\ status = "success"
             /\ final.results =
                    JsonLoads(RecoveryAttempts(env.text)[
                        CHOOSE i \in ParsingAttempts(env.text) :
                            \A j \in ParsingAttempts(env.text) : i <= j].group).val

----------------------------------------------------------------------------
\* C26: apply_rate_limiting reads the lease, sleeps until the delay has passed
\* since the latest lease it read (not at all if it already has), and writes
\* its own lease with a timestamp taken after the sleep: a caller whose read
\* succeeded is about to write only when each lease it wrote in an earlier
\* call is at least the delay old, and a sleep it takes ends at least the
\* delay after a lease in the store.
C26_SequentialSpacing ==
    \A c \in Callers :
        ~lim[c].readFailed =>
            /\ lim[c].pc = "record" =>
                  /\ now >= lim[c].wakeAt
                  /\ \A r \in lease : r.agent = c => now >= r.time + Delay
            /\ lim[c].pc = "sleep" =>
                  /\ lim[c].wakeAt > lim[c].current_time
                  /\ \E r \in lease : lim[c].wakeAt >= r.time + Delay

\* a caller's second call is about to write its lease after sleeping, its
\* first lease being in the store
C26_Witness ==
    \E c \in Callers :
        /\ lim[c].pc = "record"
        /\ ~lim[c].readFailed
        /\ lim[c].calls = 1
        /\ lim[c].wakeAt > lim[c].current_time
        /\ \E r \in lease : r.agent = c /\ now = r.time + Delay

----------------------------------------------------------------------------
\* the interval the claim has apply_rate_limiting use: the custom_delay when
\* one is supplied, the module default otherwise
ClaimedDelay == IF env.supplied THEN env.custom_delay ELSE AGENT_INVOKE_DELAY

\* C27: a supplied custom_delay is the interval of both the elapsed-time
\* comparison and the fallback sleep, and AGENT_INVOKE_DELAY is used only when
\* none is supplied: a call that sleeps after a failed read sleeps that
\* interval from the failure, and a call that sleeps after reading a lease
\* wakes that interval after the lease (later only by the time the read took).
C27_CustomDelayIsInterval ==
    \A c \in Callers :
        lim[c].pc = "sleep" =>
            IF lim[c].readFailed
            THEN lim[c].wakeAt = lim[c].failedAt + ClaimedDelay
            ELSE \E r \in lease :
                    /\ lim[c].wakeAt >= r.time + ClaimedDelay
                    /\ lim[c].wakeAt <= r.time + ClaimedDelay + (now - lim[c].current_time)

----------------------------------------------------------------------------
\* C28: sequential tool execution: for a MODEL_INVOKED event that asks for
\* tools the returned event carries only the first of them, and the others
\* are executed afterwards: a conversation never ends with a requested tool
\* left unexecuted.
C28_SequentialNoneLost ==
    entry = "custom_orchestration" =>
        /\ (env.orchestrationState = "MODEL_INVOKED" /\ env.toolUse.tools # <<>>) =>
              results.toolUse.tools = <<env.toolUse.tools[1]>>
        /\ \A key \in Keys : parts[key].phase = "done" => parts[key].pending = 0

\* C29: for every key, two consecutive apply_rate_limiting calls of the
\* container complete at least MIN_INTERVAL_SECONDS apart, whatever other keys
\* were served and whatever was cleaned up in between.
C29_MinInterval ==
    entry = "custom_orchestration" =>
        \A i, j \in 1..Len(stageLog) :
            (i < j /\ stageLog[i].key = stageLog[j].key) =>
                stageLog[j].time - stageLog[i].time >= MIN_INTERVAL_SECONDS

\* C30: after every apply_rate_limiting call last_converse_time holds at most
\* TABLE_LIMIT entries, the entry of the key just served among them, and the
\* call deleted either nothing or the CLEANUP_COUNT entries with the oldest
\* timestamps: no deleted entry is newer than an entry that was kept.
C30_TableBounded ==
    (entry = "custom_orchestration" /\ stageLog # <<>>) =>
        /\ Len(table) <= TABLE_LIMIT
        /\ HasKey(table, stageLog[Len(stageLog)].key)
        /\ TimeOf(table, stageLog[Len(stageLog)].key) = stageLog[Len(stageLog)].time
        /\ Cardinality(inflight) \in {0, CLEANUP_COUNT}
        /\ \A e \in inflight : \A i \in 1..Len(table) : e.time <= table[i].time

\* a call has just cleaned up: it deleted the oldest entries and kept the one
\* of the key it served
C30_Witness ==
    /\ entry = "custom_orchestration"
    /\ stageLog # <<>>
    /\ Cardinality(inflight) = CLEANUP_COUNT
    /\ Len(table) = TABLE_LIMIT + 1 - CLEANUP_COUNT
    /\ HasKey(table, stageLog[Len(stageLog)].key)
    /\ env.orchestrationState \in {"START", "TOOL_INVOKED"}

----------------------------------------------------------------------------
(* shared/utils/rate_limiter.py: RateLimiter, checked under SpecRateLimiter.

   One RateLimiter object and the thread that calls it.  The variables hold:
     entry     "rate_limiter"
     env       the constructor argument: [min_interval_seconds]
     table     self.last_operation_time: None, or <<t>>
     pc        "idle", or "sleeping" while wait_if_needed is in time.sleep
     inflight  the locals of the call that is sleeping
     stageLog  the calls that returned and the resets, in order
     results   the value the latest wait_if_needed returned
     now       time.time(), in seconds                                        *)

\* largest min_interval_seconds a limiter is constructed with
MaxInterval == 3

\* largest number of wait_if_needed calls made on the limiter
MaxLimiterCalls == 3

\* Optional[float]: None, or <<t>>
None == <<>>

\* __init__, lines 28-36
RateLimiterInit(min_interval_seconds) ==
    /\ env = [min_interval_seconds |-> min_interval_seconds]
    /\ table = None

\* wait_if_needed, lines 60-69: the variant below measures from the start of
\* the previous call's wait instead of last_operation_time
Remaining_FromCallEntry(min_interval_seconds, operation_start_time, last_operation_time, current_time) ==
    IF operation_start_time # None
    THEN min_interval_seconds - (current_time - operation_start_time[1])
    ELSE IF last_operation_time # None /\ stageLog # <<>>
    THEN min_interval_seconds - (current_time - stageLog[Len(stageLog)].current_time)
    ELSE 0

\* wait_if_needed, lines 60-69: remaining
Remaining(min_interval_seconds, operation_start_time, last_operation_time, current_time) ==
    IF operation_start_time # None
    THEN min_interval_seconds - (current_time - operation_start_time[1])
    ELSE IF last_operation_time # None
    THEN min_interval_seconds - (current_time - last_operation_time[1])
    ELSE 0

\* the wait_if_needed calls begun so far
LimiterCalls ==
    Len(SelectSeq(stageLog, LAMBDA e : e.op = "wait_if_needed"))
        + (IF pc = "sleeping" THEN 1 ELSE 0)

\* wait_if_needed, lines 78-81: last_operation_time is set to the time after the
\* wait and wait_time is returned
wait_if_needed_returns(call) ==
    /\ table' = <<now>>
    /\ results' = call.wait_time
    /\ stageLog' = Append(stageLog, [call EXCEPT !.last_operation_time = <<now>>])
    /\ pc' = "idle"
    /\ inflight' = {}

\* wait_if_needed, lines 57-76: up to the call of time.sleep; a call that has
\* nothing to wait for returns at once
wait_if_needed(operation_start_time) ==
    /\ entry = "rate_limiter"
    /\ pc = "idle"
    /\ LimiterCalls < MaxLimiterCalls
    /\ LET remaining == Remaining(env.min_interval_seconds, operation_start_time, table, now)
           call == [op |-> "wait_if_needed",
                    operation_start_time |-> operation_start_time,
                    previous |-> table,
                    current_time |-> now,
                    wait_time |-> IF remaining > 0 THEN remaining ELSE 0,
                    last_operation_time |-> None]
       IN IF remaining > 0
          THEN /\ pc' = "sleeping"
               /\ inflight' = call
               /\ UNCHANGED <<table, results, stageLog>>
          ELSE wait_if_needed_returns(call)
    /\ UNCHANGED <<entry, env, step, attempt, planned, lastError, waits, apiCalls,
                   parts, status, final, hist, now, lim, lease>>

\* wait_if_needed, lines 73-81: time.sleep(remaining) returns, no earlier than
\* remaining seconds after it was called
wait_if_needed_wakes ==
    /\ entry = "rate_limiter"
    /\ pc = "sleeping"
    /\ now >= inflight.current_time + inflight.wait_time
    /\ wait_if_needed_returns(inflight)
    /\ UNCHANGED <<entry, env, step, attempt, planned, lastError, waits, apiCalls,
                   parts, status, final, hist, now, lim, lease>>

\* reset, lines 83-85
reset ==
    /\ entry = "rate_limiter"
    /\ pc = "idle"
    /\ table # None
    /\ table' = None
    /\ stageLog' = Append(stageLog, [op |-> "reset",
                                     operation_start_time |-> None,
                                     previous |-> table,
                                     current_time |-> now,
                                     wait_time |-> 0,
                                     last_operation_time |-> None])
    /\ UNCHANGED <<entry, env, pc, step, attempt, planned, lastError, waits, apiCalls,
                   inflight, parts, results, status, final, hist, now, lim, lease>>

InitRateLimiter ==
    /\ entry = "rate_limiter"
    /\ \E min_interval_seconds \in 1..MaxInterval : RateLimiterInit(min_interval_seconds)
    /\ pc = "idle"
    /\ step = 0
    /\ attempt = 0
    /\ planned = 0
    /\ lastError = NoError
    /\ waits = <<>>
    /\ stageLog = <<>>
    /\ apiCalls = <<>>
    /\ inflight = {}
    /\ parts = EmptyMap
    /\ results = 0
    /\ status = "running"
    /\ final = NoFinal
    /\ hist = NoHist
    /\ now = StartOfTime
    /\ lim = EmptyMap
    /\ lease = {}

NextRateLimiter ==
    \/ wait_if_needed(None)
    \/ \E t \in StartOfTime..now : wait_if_needed(<<t>>)
    \/ wait_if_needed_wakes
    \/ reset
    \/ Tick

SpecRateLimiter == InitRateLimiter /\ [][NextRateLimiter]_vars

\* max(0, x)
Max0(x) == IF x > 0 THEN x ELSE 0

\* C31: every wait_if_needed call that returned waited and returned
\* max(0, min_interval - elapsed), elapsed measured from the operation start
\* it was given or, given none, from last_operation_time as the previous call
\* left it (nothing on the first call or after a reset: no wait); it finished
\* no earlier than its wait after it began and left last_operation_time at the
\* time it finished; and a call without a start time that directly follows
\* another call finished at least min_interval after that call finished.
C31_MinimumTotalTime ==
    entry = "rate_limiter" =>
        \A i \in 1..Len(stageLog) :
            LET e == stageLog[i]
                m == env.min_interval_seconds IN
            e.op = "wait_if_needed" =>
                /\ e.operation_start_time # None =>
                       e.wait_time = Max0(m - (e.current_time - e.operation_start_time[1]))
                /\ (e.operation_start_time = None /\ e.previous # None) =>
                       e.wait_time = Max0(m - (e.current_time - e.previous[1]))
                /\ (e.operation_start_time = None /\ e.previous = None) => e.wait_time = 0
                /\ e.last_operation_time # None
                /\ e.last_operation_time[1] >= e.current_time + e.wait_time
                /\ (i = Len(stageLog) /\ pc = "idle") =>
                       (table = e.last_operation_time /\ results = e.wait_time)
                /\ (i > 1 /\ stageLog[i-1].op = "wait_if_needed") =>
                       e.previous = stageLog[i-1].last_operation_time
                /\ (i > 1 /\ stageLog[i-1].op = "wait_if_needed" /\ e.operation_start_time = None) =>
                       e.last_operation_time[1] - stageLog[i-1].last_operation_time[1] >= m
                /\ (i = 1 \/ (i > 1 /\ stageLog[i-1].op = "reset")) => e.previous = None

\* three calls returned: the first, without a start time, did not wait, the
\* second was given a start time and waited, the third was given none and
\* waited for the rest of the interval since the second finished
C31_Witness ==
    /\ entry = "rate_limiter"
    /\ pc = "idle"
    /\ Len(stageLog) = 3
    /\ \A i \in 1..3 : stageLog[i].op = "wait_if_needed"
    /\ stageLog[1].operation_start_time = None /\ stageLog[1].wait_time = 0
    /\ stageLog[2].operation_start_time # None /\ stageLog[2].wait_time > 0
    /\ stageLog[3].operation_start_time = None /\ stageLog[3].wait_time > 0
    /\ results = stageLog[3].wait_time

----------------------------------------------------------------------------
(* supervisor_agent.py: invoke_collaborator called with a max_retries argument,
   checked under SpecInvokeCollaborator.

   invoke() always leaves max_retries at its default; here one call of
   invoke_collaborator is made with any max_retries.  The variables hold:
     entry     "invoke_collaborator"
     env       the call: [collaborator, max_retries, MOCK_MODE, configured, answers]
     pc        "called", "attempt", "await", "backoff", "returned", "raised"
     attempt   the loop variable
     apiCalls  the invoke_agent calls sent
     waits     the sleeps taken
     results   the value returned
     lastError the exception raised                                          *)

\* largest max_retries argument
MaxRetriesArg == 3

\* the max_retries arguments: an int, with no check on its sign
RetriesArgs == -1..MaxRetriesArg

\* the value of a Python function that ends without a return statement
ReturnsNone == Out("None", "absent")

\* range(max_retries), line 366, as the attempts the loop takes
range(n) == 0..(n - 1)

\* lines 344-366: mock mode, the configuration checks and the entry of the loop
CallCollaborator ==
    /\ entry = "invoke_collaborator"
    /\ pc = "called"
    /\ IF env.MOCK_MODE
       THEN /\ pc' = "returned"
            /\ results' = get_mock_response(env.collaborator)
            /\ UNCHANGED <<attempt, lastError>>
       ELSE IF ~env.configured
       THEN /\ pc' = "raised"
            /\ lastError' = Err("missing_configuration", "none", 0)
            /\ UNCHANGED <<attempt, results>>
       ELSE IF range(env.max_retries) = {}
       THEN \* the loop body never runs and the function ends after the loop
            /\ pc' = "returned"
            /\ results' = ReturnsNone
            /\ UNCHANGED <<attempt, lastError>>
       ELSE /\ pc' = "attempt"
            /\ attempt' = 0
            /\ UNCHANGED <<results, lastError>>
    /\ UNCHANGED <<entry, env, step, planned, waits, stageLog, apiCalls, inflight,
                   parts, status, final, table, hist>>
    /\ UNCHANGED throttleVars

\* line 372: invoke_agent is sent
CallSends ==
    /\ entry = "invoke_collaborator"
    /\ pc = "attempt"
    /\ apiCalls' = Append(apiCalls, env.collaborator)
    /\ pc' = "await"
    /\ UNCHANGED <<entry, env, step, attempt, planned, lastError, waits, stageLog,
                   inflight, parts, results, status, final, table, hist>>
    /\ UNCHANGED throttleVars

\* lines 380-384: the response is parsed and returned
CallReturns ==
    /\ entry = "invoke_collaborator"
    /\ pc = "await"
    /\ \E text \in ResponseTexts(env.collaborator) :
          results' = parse_streaming_response(text)
    /\ pc' = "returned"
    /\ UNCHANGED <<entry, env, step, attempt, planned, lastError, waits, stageLog,
                   apiCalls, inflight, parts, status, final, table, hist>>
    /\ UNCHANGED throttleVars

\* lines 386-397: the attempt raised
CallFails ==
    /\ entry = "invoke_collaborator"
    /\ pc = "await"
    /\ \E kind \in {"throttling", "other"} :
          IF attempt < env.max_retries - 1
          THEN /\ waits' = Append(waits, Pow2(attempt))
               /\ pc' = "backoff"
               /\ UNCHANGED lastError
          ELSE /\ lastError' = Err("retries_exhausted", kind, attempt)
               /\ pc' = "raised"
               /\ UNCHANGED waits
    /\ UNCHANGED <<entry, env, step, attempt, planned, stageLog, apiCalls, inflight,
                   parts, results, status, final, table, hist>>
    /\ UNCHANGED throttleVars

\* lines 394, 366: the sleep ends and the loop takes its next attempt
CallSleeps ==
    /\ entry = "invoke_collaborator"
    /\ pc = "backoff"
    /\ attempt' = attempt + 1
    /\ pc' = "attempt"
    /\ UNCHANGED <<entry, env, step, planned, lastError, waits, stageLog, apiCalls,
                   inflight, parts, results, status, final, table, hist>>
    /\ UNCHANGED throttleVars

InitInvokeCollaborator ==
    /\ entry = "invoke_collaborator"
    /\ env \in [collaborator : COLLABORATORS, max_retries : RetriesArgs,
                MOCK_MODE : BOOLEAN, configured : BOOLEAN, answers : {"schema"}]
    /\ pc = "called"
    /\ step = 0
    /\ attempt = 0
    /\ planned = 0
    /\ lastError = NoError
    /\ waits = <<>>
    /\ stageLog = <<>>
    /\ apiCalls = <<>>
    /\ inflight = {}
    /\ parts = EmptyMap
    /\ results = EmptyMap
    /\ status = "running"
    /\ final = NoFinal
    /\ table = EmptyMap
    /\ hist = NoHist
    /\ InitThrottleIdle

NextInvokeCollaborator ==
    \/ CallCollaborator
    \/ CallSends
    \/ CallReturns
    \/ CallFails
    \/ CallSleeps

SpecInvokeCollaborator == InitInvokeCollaborator /\ [][NextInvokeCollaborator]_vars

\* C32: for every max_retries, invoke_collaborator sends at most max_retries
\* invoke_agent calls and, when it has returned, it has returned a response
\* (a parsed answer or the mock response), never nothing.
C32_ReturnsResponseOrRaises ==
    entry = "invoke_collaborator" =>
        /\ Len(apiCalls) <= Max0(env.max_retries)
        /\ pc = "returned" => results # ReturnsNone

----------------------------------------------------------------------------
(* SpecGate: the two orchestrators run against a quality validator whose
   answer need not keep to the ValidationResult schema: its is_valid may be
   any JSON value.                                                           *)

InitGate ==
    /\ entry \in {"agentcore", "lambda"}
    /\ \E e \in AgentcoreEnvs \cup LambdaEnvs :
          /\ env = [e EXCEPT !.answers = "any_json"]
          /\ entry = "agentcore" <=> e \in AgentcoreEnvs
    /\ pc = "start"
    /\ step = 0
    /\ attempt = 0
    /\ planned = 0
    /\ lastError = NoError
    /\ waits = <<>>
    /\ stageLog = <<>>
    /\ apiCalls = <<>>
    /\ inflight = {}
    /\ parts = EmptyMap
    /\ results = EmptyMap
    /\ status = "running"
    /\ final = NoFinal
    /\ table = EmptyMap
    /\ hist = NoHist
    /\ InitThrottleIdle

NextGate ==
    \/ SupStart
    \/ BeginCollaborator
    \/ SendInvokeAgent
    \/ ReceiveResponse
    \/ ReceiveFailure
    \/ Backoff
    \/ LambdaStart
    \/ HRateLimit
    \/ HInvoke
    \/ HReceive
    \/ HReceiveFailure
    \/ HPersist

SpecGate == InitGate /\ [][NextGate]_vars

\* C33: the validation gate fails closed: once the VALIDATION stage returned
\* an output whose is_valid is missing (an unparsed response included) or is
\* any value other than the boolean true, no deployment call is ever made and
\* the run, unless something raised, ends validation_failed.
C33_GateFailsClosed ==
    (entry \in {"agentcore", "lambda"} /\ ValidationDone
        /\ results[ValidationKey].is_valid # "true") =>
            /\ ~DeploymentInvoked
            /\ status # "deployed"
            /\ (pc = "done" /\ hist.raised = <<>>) => final.status = "validation_failed"

\* the last call of handle_orchestrate's validation stage: /compliance-check
ValidationLast ==
    CHOOSE i \in 1..Len(ORCHESTRATION) :
        ORCHESTRATION[i].stage = "validation" /\ LastOfStage(i)

\* the three results of the validation stage have been received
ValidationCallsDone ==
    {"/validate-code", "/security-scan", "/compliance-check"} \subseteq DOMAIN parts

\* C34: in handle_orchestrate the decision to deploy depends on the
\* /validate-code result's is_valid alone: whatever /security-scan and
\* /compliance-check returned, the run goes on to the deployment calls exactly
\* when that is_valid counts as true, and ends validation_failed without a
\* deployment call otherwise; so two runs that differ only in the two other
\* results decide alike.
C34_GateReadsValidateCodeOnly ==
    (entry = "lambda" /\ ValidationCallsDone) =>
        LET passes == Truthy(GetIsValid(parts["/validate-code"])) IN
        /\ passes <=> step > ValidationLast
        /\ ~passes => (~DeploymentInvoked /\ status # "deployed")
        /\ (~passes /\ pc = "done" /\ hist.raised = <<>>) => final.status = "validation_failed"
        /\ (passes /\ pc = "done" /\ hist.raised = <<>>) =>
               (DeploymentInvoked /\ final.status = "deployed")

\* a run deployed although its security scan did not answer with a result:
\* only the /validate-code result was consulted
C34_Witness ==
    /\ entry = "lambda"
    /\ ValidationCallsDone
    /\ parts["/validate-code"].is_valid = "true"
    /\ parts["/security-scan"].kind # "dict"
    /\ parts["/compliance-check"].kind = "dict"
    /\ pc = "done"
    /\ final.status = "deployed"

\* no write to the inference record raised: the store was reachable throughout
StoreReachable == \A i \in 1..Len(hist.record) : hist.record[i] # "unreachable"

\* C35: with the store reachable, once handle_orchestrate has returned or
\* raised, its inference record is not in_progress: it is success when the run
\* ended deployed or validation_failed and error when something raised, and
\* the record was written in_progress then success, or in_progress then
\* error: a record once success is not rewritten to error.
C35_RecordSettled ==
    (entry = "lambda" /\ pc = "done" /\ hist.record # <<>> /\ StoreReachable) =>
        /\ table["supervisor"] # "in_progress"
        /\ final.status \in {"deployed", "validation_failed"} => table["supervisor"] = "success"
        /\ hist.raised # <<>> => table["supervisor"] = "error"
        /\ hist.record \in { <<"in_progress", "success">>, <<"in_progress", "error">> }

\* the number a sequence of decimal digits writes
RECURSIVE DigitsValue(_)
DigitsValue(t) ==
    IF t = <<>> THEN 0
    ELSE 10 * DigitsValue(SubSeq(t, 1, Len(t) - 1))
         + (CHOOSE d \in 0..9 : DigitChar(d) = t[Len(t)])

\* C36: for every request and optional explicit keyword the name generate_job_name
\* returns is accepted by is_valid_job_name, and parse_job_name of it returns
\* the normalized keyword (that of the explicit keyword when one is given, of
\* the extracted one otherwise: not empty, at most 20 characters of [a-z0-9-],
\* no hyphen at either end) and the date and the time of the clock reading
\* the name was built from.
C36_RoundTrip ==
    (entry = "job_name" /\ env.fn = "job_generator" /\ pc = "parsed") =>
        /\ results.valid
        /\ DOMAIN results.parsed = {"keyword", "date", "time", "timestamp"}
        /\ LET k == results.parsed.keyword IN
           /\ k = normalize_keyword(IF env.keyword = <<>>
                                    THEN extract_keyword_shared(env.request)
                                    ELSE env.keyword)
           /\ k # <<>> /\ Len(k) <= 20
           /\ AllIn(k, LowerLetters \cup Digits \cup {"-"})
           /\ k[1] # "-" /\ k[Len(k)] # "-"
           /\ parts = <<"j", "o", "b", "-">> \o k \o <<"-">> \o results.parsed.timestamp
        /\ Len(results.parsed.date) = 8 /\ Len(results.parsed.time) = 6
        /\ DigitsValue(results.parsed.date)
              = env.utc.year * 10000 + env.utc.month * 100 + env.utc.day
        /\ DigitsValue(results.parsed.time)
              = env.utc.hour * 10000 + env.utc.minute * 100 + env.utc.second

\* an explicit keyword longer than 20 characters whose cut ends in a hyphen was
\* normalized, and the name built from it parsed back to the normalized keyword
C36_Witness ==
    /\ entry = "job_name"
    /\ env.fn = "job_generator"
    /\ pc = "parsed"
    /\ Len(env.keyword) > 20
    /\ results.valid
    /\ Len(results.parsed.keyword) = 19

----------------------------------------------------------------------------
(* SpecJobIds: two requests each given a job id by the same generate_job_name.
   entry = "job_ids"; env holds the function and, for each of the two
   requests, its text and the UTC clock reading at which its id is generated;
   parts holds the two ids.                                                   *)

\* the clock one second later (the readings used are not at a minute's end)
NextSecond(c) == [c EXCEPT !.second = @ + 1]

\* the requests the second id is generated for: those of at most one word,
\* and the example
ShortRequests == { r \in Requests : \A i \in 1..Len(r) : r[i] # " " } \cup { ExampleRequest }

GenerateTwoShared ==
    /\ entry = "job_ids"
    /\ pc = "start"
    /\ env.fn = "job_generator"
    /\ parts' = << generate_job_name(env.first.request, <<>>, env.first.utc),
                   generate_job_name(env.second.request, <<>>, env.second.utc) >>
    /\ JobNameFrame

GenerateTwoSupervisor ==
    /\ entry = "job_ids"
    /\ pc = "start"
    /\ env.fn = "supervisor_agent"
    /\ parts' = << generate_job_name_supervisor(env.first.request, env.first.utc),
                   generate_job_name_supervisor(env.second.request, env.second.utc) >>
    /\ JobNameFrame

InitJobIds ==
    /\ entry = "job_ids"
    /\ env \in { [fn |-> f, first |-> [request |-> r1, utc |-> c1],
                  second |-> [request |-> r2, utc |-> c2]] :
                   f \in {"job_generator", "supervisor_agent"},
                   r1 \in Requests, r2 \in ShortRequests,
                   c1 \in Clocks, c2 \in Clocks \cup { NextSecond(c) : c \in Clocks } }
    /\ pc = "start"
    /\ step = 0
    /\ attempt = 0
    /\ planned = 0
    /\ lastError = NoError
    /\ waits = <<>>
    /\ stageLog = <<>>
    /\ apiCalls = <<>>
    /\ inflight = {}
    /\ parts = <<>>
    /\ results = EmptyMap
    /\ status = "running"
    /\ final = NoFinal
    /\ table = EmptyMap
    /\ hist = NoHist
    /\ InitThrottleIdle

NextJobIds ==
    \/ GenerateTwoShared
    \/ GenerateTwoSupervisor

SpecJobIds == InitJobIds /\ [][NextJobIds]_vars

\* the keyword the function extracts from a request
ExtractedKeyword(fn, request) ==
    IF fn = "job_generator" THEN extract_keyword_shared(request)
    ELSE extract_keyword_supervisor(request)

\* C37: the job id is a function of the extracted keyword and the UTC second:
\* two requests with the same extracted keyword whose ids are generated in
\* the same second get the same id, and two requests that differ in the
\* extracted keyword or in the second get different ids.
C37_IdOfKeywordAndSecond ==
    (entry = "job_ids" /\ pc = "done") =>
        LET same == /\ ExtractedKeyword(env.fn, env.first.request)
                          = ExtractedKeyword(env.fn, env.second.request)
                    /\ env.first.utc = env.second.utc
        IN /\ same => parts[1] = parts[2]
           /\ ~same => parts[1] # parts[2]

\* two different requests with the same keyword, issued in the same second,
\* were given the same id
C37_Witness ==
    /\ entry = "job_ids"
    /\ pc = "done"
    /\ env.first.request # env.second.request
    /\ env.first.utc = env.second.utc
    /\ parts[1] = parts[2]

====
